---- MODULE Spec2Model ----
(***************************************************************************)
(* DockerMonitor: the alert evaluator (core/alerts.py, AlertManager) and   *)
(* the metrics scheduler (core/monitor.py, ContainerMonitor) as state      *)
(* machines.                                                               *)
(*                                                                         *)
(* Spec        : AlertManager driven by its public methods.                *)
(* NotifySpec  : AlertManager with the callback loop of check_alerts step  *)
(*               by step, and callbacks registered and unregistered while  *)
(*               it runs.                                                  *)
(* MonitorSpec : ContainerMonitor: the calling thread (start, stop,        *)
(*               add_callback) and the loop threads it starts, one step    *)
(*               per access to the shared fields.                          *)
(* HistorySpec : one loop thread that runs until a History Buffer has      *)
(*               overflowed, from construction or from the state it has    *)
(*               after Prefilled collections.                              *)
(* TimedSpec   : one loop thread under a wall clock that counts tenths of  *)
(*               a second, with set_interval calls from the calling thread.*)
(* DispatchSpec: one loop thread and a calling thread that registers and   *)
(*               unregisters callbacks at any time.                        *)
(* CollectSpec : one call of _collect_metrics: the submitting thread and   *)
(*               the workers of its ThreadPoolExecutor.                    *)
(* RestartSpec : MonitorSpec with room for the collections of two loop     *)
(*               threads.                                                  *)
(* AdaptSpec   : the loop and set_interval, for collections of any length. *)
(* WaitSpec    : TimedSpec with stop_monitoring, whose join gives up after  *)
(*               half a second; WaitFairSpec adds that a thread that can   *)
(*               take a step does, and that time passes.                   *)
(* StatsSpec   : DockerClient.get_container_stats on the raw records the   *)
(*               Docker API can answer with.                               *)
(* In Spec, MonitorSpec and HistorySpec the wall clock stands still:       *)
(* whether a tick is due (monitor.py:110) and how long a collection took   *)
(* (monitor.py:128) are inputs there.                                      *)
(***************************************************************************)
EXTENDS Integers, Sequences, FiniteSets, TLC

VARIABLES
    \* ---- AlertManager fields (alerts.py:14-32)
    default_thresholds,     \* dict metric -> value
    container_thresholds,   \* dict container_id -> dict metric -> value
    active_alerts,          \* insertion-ordered dict, as the sequence of its values
    alert_history,          \* list of alert copies
    alert_callbacks,        \* AlertManager.callbacks
    \* ---- the latest AlertManager call, as its caller sees it
    am_call,                \* [op, args] of the latest call
    am_ret,                 \* what the latest call returned
    am_notified,            \* callbacks invoked by the latest call, in order
    am_checks,              \* number of check_alerts calls so far (the clock)
    am_sets,                \* number of threshold-setting calls so far
    am_requested,           \* the thresholds the callers asked for, by call
    \* ---- a check_alerts call in its callback loop (alerts.py:153-161)
    am_pc,                  \* where the call is
    am_k,                   \* the callbacks its for loop has passed
    am_new_alerts,          \* its local new_alerts
    \* ---- ContainerMonitor fields (monitor.py:27-37)
    refresh_interval,
    metrics_history,        \* dict container_id -> list of snapshots
    running,
    thread,                 \* self.thread: a thread of threads, or 0 for None
    callbacks,              \* ContainerMonitor.callbacks
    \* ---- the threads
    threads,                \* the loop threads started so far, each with the
                            \* locals of its _monitor_loop
    m_pc,                   \* where the calling thread is
    m_call,                 \* the latest ContainerMonitor call
    ticks,                  \* collections so far: the timestamp of the latest
    stored,                 \* per container, the snapshots appended to its
                            \* buffer since metrics_history was last cleared
    \* ---- the wall clock, in tenths of a second
    time,                   \* time.time()
    next_update_time,       \* per loop thread, its local of that name
    start_time,             \* per loop thread, its local of that name
    busy_until,             \* per loop thread, when the sleep or collection
                            \* it is in returns
    \* ---- one call of _collect_metrics (monitor.py:230-269)
    c_pc,                   \* where the calling thread is
    containers,             \* what list_containers returned
    raising,                \* the containers whose stat fetch raises
    future,                 \* per submitted work item, its state and result
    fetches,                \* per container, its get_container_stats calls
    c_metrics,              \* the local metrics, a dict
    c_ret,                  \* what the call returned
    \* ---- the latest get_container_stats call (docker_client.py:239-345)
    stats_obj,              \* what api_client.stats answers with, a dict
    stats_ret,              \* what the call returned, a dict
    stats_raise,            \* the places of the call where an exception is raised
    stats_pair,             \* what _collect_container_stats returned for it
    stats_metrics,          \* the snapshot map _collect_metrics builds of it
    \* ---- calls while the clock runs
    join_until,             \* when the join of stop_monitoring gives up
    changed_at,             \* when set_interval was called while the loop
                            \* waited between ticks, until the next
                            \* collection starts; -1 otherwise
    stopped                 \* when stop_monitoring cleared the flag while
                            \* which loop thread waited between ticks (at
                            \* -1 otherwise), and which threads were then
                            \* collecting; until the next start

am_vars == <<default_thresholds, container_thresholds, active_alerts,
             alert_history, alert_callbacks, am_call, am_ret, am_notified,
             am_checks, am_sets, am_requested>>

m_vars == <<refresh_interval, metrics_history, running, thread, callbacks,
            threads, m_pc, m_call, ticks, stored>>

t_vars == <<time, next_update_time, start_time, busy_until>>

c_vars == <<c_pc, containers, raising, future, fetches, c_metrics, c_ret>>

n_vars == <<am_pc, am_k, am_new_alerts>>

s_vars == <<stats_obj, stats_ret, stats_raise, stats_pair, stats_metrics>>

w_vars == <<join_until, changed_at, stopped>>

vars == <<am_vars, n_vars, m_vars, t_vars, c_vars, s_vars, w_vars>>

----------------------------------------------------------------------------
(* Bounds of the model *)

\* check_alerts and threshold-setting calls in one behaviour
MaxCalls == 4

\* loop threads started in one behaviour
MaxThreads == 2
\* collections in one behaviour of MonitorSpec
MaxTicks == 1
\* collections in one behaviour of RestartSpec
MaxRestartTicks == 2
\* collections in one behaviour of HistorySpec
MaxAppends == 1001
\* collections already made in the long-running initial state of HistorySpec
Prefilled == 998

\* the length a History Buffer is cut to, monitor.py:156
HistoryCap == 1000
\* refresh_interval of __init__, monitor.py:19
DefaultInterval == 5

\* float('inf'), alerts.py:76: a value no modelled reading or threshold reaches
Inf == 1000000

Containers == {"A", "B"}
\* the metrics check_alerts evaluates, in its order (alerts.py:93)
EvaluatedMetrics == <<"cpu_percent", "memory_percent">>
\* a metric that is not in the defaults of __init__ (alerts.py:17-20)
OtherMetric == "network_rx"
\* the metrics set_container_threshold is called with
OverrideMetrics == {"cpu_percent", "memory_percent"}
\* the metrics set_default_threshold is called with
DefaultMetrics == OverrideMetrics \cup {OtherMetric}
ThresholdValues == {50, 80}
\* what the containers report: A's cpu at or over the default threshold, A's
\* memory over it, B's memory between the two threshold values
ReadingsOf(container_id, metric) ==
    IF container_id = "A" /\ metric = "cpu_percent" THEN {80, 90}
    ELSE IF container_id = "A" /\ metric = "memory_percent" THEN {90}
    ELSE IF container_id = "B" /\ metric = "memory_percent" THEN {60}
    ELSE {}
AlertCallbacks == {"on_new_alerts"}
MonitorCallbacks == {"on_metrics_update"}
\* callbacks that raise an Exception whenever they are called
RaisingCallbacks == {"raising_callback"}
\* tenths of a second a collection takes, under every interval
FastCollection == 1

None == "None"

----------------------------------------------------------------------------
(* Python dicts *)

\* d[k] = v on a dict modelled as a function
DictSet(d, k, v) == (k :> v) @@ d

Range(s) == {s[i] : i \in 1..Len(s)}

\* the container ids of a snapshot map, which is a dict: no id twice
Ids(metrics) == {metrics[i].id : i \in 1..Len(metrics)}

ContainerName(container_id) == "name-" \o container_id

\* what one container reports: a dict with some of the evaluated metrics
ContainerMetrics(c) ==
    {r \in UNION {[ms -> UNION {ReadingsOf(c, m) : m \in ms}] :
                      ms \in SUBSET Range(EvaluatedMetrics) \ {{}}} :
        \A m \in DOMAIN r : r[m] \in ReadingsOf(c, m)}

EntriesOf(c) == {[id |-> c, name |-> ContainerName(c), metrics |-> r] :
                    r \in ContainerMetrics(c)}

\* snapshot maps: dicts in insertion order, keyed by container id
Snapshots ==
    {<<>>} \cup {<<e>> : e \in EntriesOf("A") \cup EntriesOf("B")}
           \cup {<<e1, e2>> : e1 \in EntriesOf("A"), e2 \in EntriesOf("B")}

----------------------------------------------------------------------------
(* AlertManager *)

\* alerts.py:14-32
AMInit ==
    /\ default_thresholds = [m \in {"cpu_percent", "memory_percent"} |-> 80]
    /\ container_thresholds = <<>>
    /\ active_alerts = <<>>
    /\ alert_history = <<>>
    /\ alert_callbacks = <<>>
    /\ am_call = [op |-> "__init__"]
    /\ am_ret = None
    /\ am_notified = <<>>
    /\ am_checks = 0
    /\ am_sets = 0
    /\ am_requested = [default |-> <<>>, override |-> <<>>]
    /\ am_pc = "idle"
    /\ am_k = 0
    /\ am_new_alerts = <<>>

\* get_threshold with the lookup order reversed: the default wins
get_threshold_default_first(container_id, metric) ==
    IF metric \in DOMAIN default_thresholds
    THEN default_thresholds[metric]
    ELSE IF /\ container_id \in DOMAIN container_thresholds
            /\ metric \in DOMAIN container_thresholds[container_id]
         THEN container_thresholds[container_id][metric]
         ELSE Inf

\* alerts.py:60-76
get_threshold(container_id, metric) ==
    IF /\ container_id \in DOMAIN container_thresholds
       /\ metric \in DOMAIN container_thresholds[container_id]
    THEN container_thresholds[container_id][metric]
    ELSE IF metric \in DOMAIN default_thresholds
         THEN default_thresholds[metric]
         ELSE Inf

\* the comparison with >= for >
ExceedsOrEquals(value, threshold) ==
    IF threshold = Inf THEN value = Inf ELSE value >= threshold

\* alerts.py:101, value > threshold on floats
Exceeds(value, threshold) ==
    IF threshold = Inf THEN FALSE
    ELSE IF value = Inf THEN TRUE
    ELSE value > threshold

\* an alert key without the metric
AlertIdOfContainer(container_id, metric) == container_id

\* alerts.py:103 and 128, f"{container_id}_{metric}"
AlertId(container_id, metric) == container_id \o "_" \o metric

\* a membership test that never finds the alert
IsActiveNever(alerts, alert_id) == FALSE

\* alert_id in self.active_alerts
IsActive(alerts, alert_id) == \E i \in 1..Len(alerts) : alerts[i].id = alert_id

\* a resolution that leaves the alert in the dict
DictDelNothing(alerts, alert_id) == alerts

\* del self.active_alerts[alert_id]
DictDel(alerts, alert_id) == SelectSeq(alerts, LAMBDA a : a.id # alert_id)

\* self.active_alerts[alert_id], a key that is present
DictGet(alerts, alert_id) ==
    alerts[CHOOSE i \in 1..Len(alerts) : alerts[i].id = alert_id]

\* the resolution that leaves the status of the alert as it was
ResolvedUnmarked(alert, now) ==
    [id |-> alert.id, container_id |-> alert.container_id,
     container_name |-> alert.container_name, metric |-> alert.metric,
     threshold |-> alert.threshold, value |-> alert.value,
     start_time |-> alert.start_time, last_updated |-> alert.last_updated,
     status |-> alert.status, resolve_time |-> now]

\* alerts.py:130-131 and 143-144: status and resolve_time of an alert
Resolved(alert, now) ==
    [id |-> alert.id, container_id |-> alert.container_id,
     container_name |-> alert.container_name, metric |-> alert.metric,
     threshold |-> alert.threshold, value |-> alert.value,
     start_time |-> alert.start_time, last_updated |-> alert.last_updated,
     status |-> "resolved", resolve_time |-> now]

\* alerts.py:106-116
NewAlert(alert_id, entry, metric, threshold, value, now) ==
    [id |-> alert_id, container_id |-> entry.id,
     container_name |-> entry.name, metric |-> metric,
     threshold |-> threshold, value |-> value,
     start_time |-> now, last_updated |-> now, status |-> "active"]

\* alerts.py:94-134: one (container, metric) of the snapshot.
\* st = [active, history, new_alerts, checked_alerts]
CheckMetric(st, entry, metric, now) ==
    IF metric \notin DOMAIN entry.metrics THEN st
    ELSE
    LET threshold == get_threshold(entry.id, metric)
        value     == entry.metrics[metric]
        alert_id  == AlertId(entry.id, metric)
        checked   == st.checked_alerts \cup {<<entry.id, metric>>}
    IN  IF Exceeds(value, threshold)
        THEN IF ~IsActive(st.active, alert_id)
             THEN LET alert == NewAlert(alert_id, entry, metric, threshold,
                                        value, now)
                  IN [active |-> Append(st.active, alert),
                      history |-> Append(st.history, alert),
                      new_alerts |-> Append(st.new_alerts, alert),
                      checked_alerts |-> checked]
             ELSE [st EXCEPT
                    !.active = [i \in 1..Len(@) |->
                                  IF @[i].id = alert_id
                                  THEN [@[i] EXCEPT !.value = value,
                                                    !.last_updated = now]
                                  ELSE @[i]],
                    !.checked_alerts = checked]
        ELSE IF IsActive(st.active, alert_id)
             THEN [st EXCEPT
                    !.history = Append(@, Resolved(DictGet(st.active, alert_id),
                                                   now)),
                    !.active = DictDel(@, alert_id),
                    !.checked_alerts = checked]
             ELSE [st EXCEPT !.checked_alerts = checked]

\* alerts.py:92-93: the containers of the snapshot in its order, and for each
\* the evaluated metrics in theirs
RECURSIVE CheckContainers(_, _, _, _)
CheckContainers(st, metrics, i, now) ==
    IF i > Len(metrics) THEN st
    ELSE CheckContainers(
             CheckMetric(CheckMetric(st, metrics[i], EvaluatedMetrics[1], now),
                         metrics[i], EvaluatedMetrics[2], now),
             metrics, i + 1, now)

\* check_alerts without its pass over the alerts the snapshot did not report
AutoResolveNone(st, now) == st

\* alerts.py:136-151: the active alerts whose pair this snapshot did not have
AutoResolve(st, now) ==
    LET stale(a) == <<a.container_id, a.metric>> \notin st.checked_alerts
        gone == SelectSeq(st.active, stale)
        RECURSIVE Del(_, _)
        Del(alerts, i) == IF i > Len(gone) THEN alerts
                          ELSE Del(DictDel(alerts, gone[i].id), i + 1)
    IN [st EXCEPT
         !.history = @ \o [i \in 1..Len(gone) |-> Resolved(gone[i], now)],
         !.active = Del(@, 1)]

\* the dispatch without its test for an empty list
NotifiedAlways(new_alerts) == alert_callbacks

\* alerts.py:153-159: every callback once; an exception of one is caught
Notified(new_alerts) ==
    IF new_alerts # <<>> /\ alert_callbacks # <<>> THEN alert_callbacks
    ELSE <<>>

\* alerts.py:78-161
check_alerts(metrics) ==
    /\ am_checks + am_sets < MaxCalls
    /\ LET now == am_checks + 1
           st0 == [active |-> active_alerts, history |-> alert_history,
                   new_alerts |-> <<>>, checked_alerts |-> {}]
           st  == AutoResolve(CheckContainers(st0, metrics, 1, now), now)
       IN /\ active_alerts' = st.active
          /\ alert_history' = st.history
          /\ am_ret' = st.new_alerts
          /\ am_notified' = Notified(st.new_alerts)
          /\ am_checks' = now
    /\ am_call' = [op |-> "check_alerts", metrics |-> metrics,
                   repeated |-> /\ am_call.op = "check_alerts"
                                /\ am_call.metrics = metrics]
    /\ UNCHANGED <<default_thresholds, container_thresholds, alert_callbacks,
                   am_sets, am_requested>>

\* alerts.py:34-43
set_default_threshold(metric, value) ==
    /\ am_checks + am_sets < MaxCalls
    /\ default_thresholds' = DictSet(default_thresholds, metric, value)
    /\ am_sets' = am_sets + 1
    /\ am_call' = [op |-> "set_default_threshold", metric |-> metric,
                   value |-> value]
    /\ am_requested' = [am_requested EXCEPT
                           !.default = DictSet(@, metric, value)]
    /\ am_ret' = None
    /\ am_notified' = <<>>
    /\ UNCHANGED <<container_thresholds, active_alerts, alert_history,
                   alert_callbacks, am_checks>>

\* alerts.py:45-58
set_container_threshold(container_id, metric, value) ==
    /\ am_checks + am_sets < MaxCalls
    /\ LET own == IF container_id \in DOMAIN container_thresholds
                  THEN container_thresholds[container_id]
                  ELSE <<>>
       IN container_thresholds' =
              DictSet(container_thresholds, container_id,
                      DictSet(own, metric, value))
    /\ am_sets' = am_sets + 1
    /\ am_call' = [op |-> "set_container_threshold",
                   container_id |-> container_id, metric |-> metric,
                   value |-> value]
    /\ am_requested' = [am_requested EXCEPT
                           !.override = DictSet(@, <<container_id, metric>>,
                                                value)]
    /\ am_ret' = None
    /\ am_notified' = <<>>
    /\ UNCHANGED <<default_thresholds, active_alerts, alert_history,
                   alert_callbacks, am_checks>>

\* alerts.py:163-171
am_add_callback(callback) ==
    /\ alert_callbacks' = IF callback \in Range(alert_callbacks)
                          THEN alert_callbacks
                          ELSE Append(alert_callbacks, callback)
    /\ am_call' = [op |-> "add_callback", callback |-> callback]
    /\ am_ret' = None
    /\ am_notified' = <<>>
    /\ UNCHANGED <<default_thresholds, container_thresholds, active_alerts,
                   alert_history, am_checks, am_sets, am_requested>>

\* check_alerts calls in one behaviour of NotifySpec
MaxNotifyChecks == 2

\* alerts.py:78-154: check_alerts up to the test before its callback loop;
\* am_call keeps the callback list as it was then
check_alerts_begin(metrics) ==
    /\ am_pc = "idle"
    /\ am_checks < MaxNotifyChecks
    /\ LET now == am_checks + 1
           st0 == [active |-> active_alerts, history |-> alert_history,
                   new_alerts |-> <<>>, checked_alerts |-> {}]
           st  == AutoResolve(CheckContainers(st0, metrics, 1, now), now)
       IN /\ active_alerts' = st.active
          /\ alert_history' = st.history
          /\ am_new_alerts' = st.new_alerts
          /\ am_checks' = now
          /\ am_pc' = IF st.new_alerts # <<>> /\ alert_callbacks # <<>>
                      THEN "L155" ELSE "L161"
    /\ am_k' = 0
    /\ am_ret' = None
    /\ am_notified' = <<>>
    /\ am_call' = [op |-> "check_alerts", metrics |-> metrics,
                   registered |-> alert_callbacks]
    /\ UNCHANGED <<default_thresholds, container_thresholds, alert_callbacks,
                   am_sets, am_requested>>

\* alerts.py:155-159: the for loop over the live callback list takes its
\* next element and calls it, or ends; what the callback raises is caught
check_alerts_notify ==
    /\ am_pc = "L155"
    /\ IF am_k < Len(alert_callbacks)
       THEN /\ am_notified' = Append(am_notified, alert_callbacks[am_k + 1])
            /\ am_k' = am_k + 1
            /\ UNCHANGED am_pc
       ELSE /\ am_pc' = "L161"
            /\ UNCHANGED <<am_notified, am_k>>
    /\ UNCHANGED <<default_thresholds, container_thresholds, active_alerts,
                   alert_history, alert_callbacks, am_call, am_ret, am_checks,
                   am_sets, am_requested, am_new_alerts>>

\* alerts.py:161
check_alerts_return ==
    /\ am_pc = "L161"
    /\ am_ret' = am_new_alerts
    /\ am_pc' = "idle"
    /\ UNCHANGED <<default_thresholds, container_thresholds, active_alerts,
                   alert_history, alert_callbacks, am_call, am_notified,
                   am_checks, am_sets, am_requested, am_k,
                   am_new_alerts>>

\* alerts.py:163-171, called while check_alerts is in its callback loop, by
\* the callback that is running or by another thread
am_add_callback_during(callback) ==
    /\ am_pc = "L155"
    /\ alert_callbacks' = IF callback \in Range(alert_callbacks)
                          THEN alert_callbacks
                          ELSE Append(alert_callbacks, callback)
    /\ UNCHANGED <<default_thresholds, container_thresholds, active_alerts,
                   alert_history, am_call, am_ret, am_notified, am_checks,
                   am_sets, am_requested, n_vars>>

\* alerts.py:173-181, called while check_alerts is in its callback loop
am_remove_callback_during(callback) ==
    /\ am_pc = "L155"
    /\ alert_callbacks' = SelectSeq(alert_callbacks,
                                    LAMBDA cb : cb # callback)
    /\ UNCHANGED <<default_thresholds, container_thresholds, active_alerts,
                   alert_history, am_call, am_ret, am_notified, am_checks,
                   am_sets, am_requested, n_vars>>

----------------------------------------------------------------------------
(* ContainerMonitor *)

\* monitor.py:99-100, the locals of a loop thread at its start; called is
\* the callbacks it has invoked since its latest collection, each with the
\* argument it was given, registered the callback list as it was when the
\* dispatch it is in began, and recent, for its latest three measured
\* collections, whether the collection took longer than the interval
NewThread ==
    [pc |-> "L102", metrics |-> <<>>, i |-> 0, k |-> 0, ticked |-> FALSE,
     consecutive_long_collections |-> 0, called |-> <<>>,
     registered |-> <<>>, recent |-> <<>>, collection_time |-> 0,
     read_interval |-> 0, new_interval |-> 0]

\* monitor.py:19-38
MInit ==
    /\ refresh_interval = DefaultInterval
    /\ metrics_history = <<>>
    /\ running = FALSE
    /\ thread = 0
    /\ callbacks = <<>>
    /\ threads = <<>>
    /\ m_pc = "idle"
    /\ m_call = [op |-> "__init__"]
    /\ ticks = 0
    /\ stored = <<>>

Alive(t) == threads[t].pc # "done"

\* start_monitoring without its test of the running flag
start_monitoring_unguarded ==
    /\ m_pc = "idle"
    /\ Len(threads) < MaxThreads
    /\ running' = TRUE
    /\ threads' = Append(threads, NewThread)
    /\ thread' = Len(threads) + 1
    /\ m_call' = [op |-> "start_monitoring", was_running |-> running]
    /\ UNCHANGED <<refresh_interval, metrics_history, callbacks, m_pc, ticks,
                   stored>>

\* monitor.py:40-48
start_monitoring ==
    /\ m_pc = "idle"
    /\ IF running
       THEN UNCHANGED <<running, thread, threads>>
       ELSE /\ Len(threads) < MaxThreads
            /\ running' = TRUE
            /\ threads' = Append(threads, NewThread)
            /\ thread' = Len(threads) + 1
    /\ m_call' = [op |-> "start_monitoring", was_running |-> running]
    /\ UNCHANGED <<refresh_interval, metrics_history, callbacks, m_pc, ticks,
                   stored>>

\* monitor.py:52-56
stop_monitoring ==
    /\ m_pc = "idle"
    /\ running' = FALSE
    /\ m_pc' = IF running THEN "L59" ELSE "idle"
    /\ m_call' = [op |-> "stop_monitoring", was_running |-> running,
                  returned |-> ~running]
    /\ UNCHANGED <<refresh_interval, metrics_history, thread, callbacks,
                   threads, ticks, stored>>

\* monitor.py:59
stop_clear_history ==
    /\ m_pc = "L59"
    /\ metrics_history' = <<>>
    /\ stored' = <<>>
    /\ m_pc' = "L60"
    /\ UNCHANGED <<refresh_interval, running, thread, callbacks, threads,
                   m_call, ticks>>

\* monitor.py:60
stop_clear_callbacks ==
    /\ m_pc = "L60"
    /\ callbacks' = <<>>
    /\ m_pc' = "L62"
    /\ UNCHANGED <<refresh_interval, metrics_history, running, thread,
                   threads, m_call, ticks, stored>>

\* monitor.py:62-75: the join returns when the thread has ended or after its
\* timeout, whichever is first; then the call returns
stop_join ==
    /\ m_pc = "L62"
    /\ thread' = 0
    /\ m_pc' = "idle"
    /\ m_call' = [m_call EXCEPT !.returned = TRUE]
    /\ UNCHANGED <<refresh_interval, metrics_history, running, callbacks,
                   threads, ticks, stored>>

\* monitor.py:77-85
add_callback(callback) ==
    /\ m_pc = "idle"
    /\ callbacks' = IF callback \in Range(callbacks) THEN callbacks
                    ELSE Append(callbacks, callback)
    /\ m_call' = [op |-> "add_callback", callback |-> callback]
    /\ UNCHANGED <<refresh_interval, metrics_history, running, thread,
                   threads, m_pc, ticks, stored>>

\* monitor.py:87-95: list.remove takes the first occurrence out
remove_callback(callback) ==
    /\ m_pc = "idle"
    /\ callbacks' = SelectSeq(callbacks, LAMBDA cb : cb # callback)
    /\ m_call' = [op |-> "remove_callback", callback |-> callback]
    /\ UNCHANGED <<refresh_interval, metrics_history, running, thread,
                   threads, m_pc, ticks, stored>>

\* set_interval that stores its argument as it is
set_interval_unclamped(interval) ==
    /\ m_pc = "idle"
    /\ refresh_interval' = interval
    /\ m_call' = [op |-> "set_interval", interval |-> interval]
    /\ UNCHANGED <<metrics_history, running, thread, callbacks, threads,
                   m_pc, ticks, stored>>

\* monitor.py:299-312
set_interval(interval) ==
    /\ m_pc = "idle"
    /\ refresh_interval' = IF interval < 1 THEN 1 ELSE interval
    /\ m_call' = [op |-> "set_interval", interval |-> interval]
    /\ UNCHANGED <<metrics_history, running, thread, callbacks, threads,
                   m_pc, ticks, stored>>

\* the locals of a loop thread that it will still read: metrics, i and k are
\* dead outside monitor.py:120-168, and every local is once the loop is left
LiveLocals(th) ==
    IF th.pc = "done"
    THEN [NewThread EXCEPT !.pc = "done", !.called = th.called]
    ELSE IF th.pc \in {"L123", "L127", "L137", "L140", "L146", "L150",
                       "L160", "L164"}
         THEN th
         ELSE [th EXCEPT !.metrics = <<>>, !.i = 0, !.k = 0,
                         !.registered = <<>>]

\* the loop thread t goes on with its locals changed
Goto(t, th) ==
    /\ threads' = [threads EXCEPT ![t] = LiveLocals(th)]
    /\ UNCHANGED <<m_pc, m_call, thread, running>>

\* a flag that stop_monitoring cannot clear
KeepsRunning == TRUE

\* self.running as the loop reads it, monitor.py:102, 104, 113, 123, 146
\* and 160
StillRunning == running

\* `if not self.running: break`, monitor.py:113, 123, 146 and 160, and the
\* test of the while, monitor.py:102
BreakUnlessRunning(t, at, next) ==
    /\ threads[t].pc = at
    /\ Goto(t, [threads[t] EXCEPT
                  !.pc = IF StillRunning THEN next ELSE "done"])
    /\ UNCHANGED <<refresh_interval, metrics_history, callbacks, ticks,
                   stored>>

L102(t) == BreakUnlessRunning(t, "L102", "L104")

\* monitor.py:104-110: the second test of the flag, then whether the tick is
\* due; the first tick of a thread is (monitor.py:99)
L104(t, due) ==
    /\ threads[t].pc = "L104"
    /\ Goto(t, [threads[t] EXCEPT !.pc =
                  IF ~StillRunning THEN "done"
                  ELSE IF due \/ ~threads[t].ticked THEN "L113"
                  ELSE "L187"])
    /\ UNCHANGED <<refresh_interval, metrics_history, callbacks, ticks,
                   stored>>

L113(t) == BreakUnlessRunning(t, "L113", "L120")

\* one container of a snapshot map, collected at time now
SnapshotEntry(container_id, now) == [id |-> container_id, timestamp |-> now]

\* monitor.py:120 with 179-184: _collect_metrics returns a snapshot map, or
\* raises and the handler of the loop sets the next tick time
L120(t, raised, metrics) ==
    /\ threads[t].pc = "L120"
    /\ ticks' = ticks + 1
    /\ Goto(t, IF raised
               THEN [threads[t] EXCEPT !.pc = "L187", !.ticked = TRUE,
                                       !.called = <<>>]
               ELSE [threads[t] EXCEPT !.pc = "L123", !.metrics = metrics,
                                       !.called = <<>>])
    /\ UNCHANGED <<refresh_interval, metrics_history, callbacks, stored>>

L123(t) == BreakUnlessRunning(t, "L123", "L127")

\* a number of seconds on the clock, which counts tenths of a second
Seconds(s) == 10 * s

\* round(collection_time * 1.2) in the place of int(): to the nearest
IncreasedIntervalRounded(collection_time) ==
    (collection_time * 12 + 50) \div 100

\* the latest three of the measured collections
LatestThree(measured) ==
    IF Len(measured) > 3 THEN Tail(measured) ELSE measured

\* the margin alone, int(collection_time * 0.2)
IncreasedIntervalMargin(collection_time) == (collection_time * 2) \div 100

\* int(collection_time * 1.2), monitor.py:138: Python's int() drops the
\* fraction; collection_time is in tenths of a second, the result in seconds
IncreasedInterval(collection_time) == (collection_time * 12) \div 100

\* monitor.py:127-137 and 141-143, for a collection_time in tenths of a
\* second: the first comparison with the interval, and the counter
L127(t, collection_time) ==
    /\ threads[t].pc = "L127"
    /\ LET long == collection_time > Seconds(refresh_interval)
           count == IF long
                    THEN threads[t].consecutive_long_collections + 1
                    ELSE 0
           third == long /\ count >= 3
       IN Goto(t, [threads[t] EXCEPT
                     !.pc = IF third THEN "L137" ELSE "L146",
                     !.consecutive_long_collections = count,
                     !.recent = LatestThree(Append(@, long)),
                     !.collection_time = IF third THEN collection_time
                                         ELSE 0])
    /\ UNCHANGED <<refresh_interval, metrics_history, callbacks, ticks,
                   stored>>

\* monitor.py:137-138: the second comparison with the interval, read anew
L137(t) ==
    /\ threads[t].pc = "L137"
    /\ LET th == threads[t]
       IN Goto(t, IF Seconds(refresh_interval) < th.collection_time
                  THEN [th EXCEPT
                          !.pc = "L140",
                          !.read_interval = refresh_interval,
                          !.new_interval =
                             IncreasedInterval(th.collection_time)]
                  ELSE [th EXCEPT !.pc = "L146", !.collection_time = 0])
    /\ UNCHANGED <<refresh_interval, metrics_history, callbacks, ticks,
                   stored>>

\* monitor.py:140
L140(t) ==
    /\ threads[t].pc = "L140"
    /\ refresh_interval' = threads[t].new_interval
    /\ Goto(t, [threads[t] EXCEPT !.pc = "L146", !.collection_time = 0,
                                  !.read_interval = 0, !.new_interval = 0])
    /\ UNCHANGED <<metrics_history, callbacks, ticks, stored>>

L146(t) ==
    /\ threads[t].pc = "L146"
    /\ Goto(t, [threads[t] EXCEPT
                  !.pc = IF StillRunning THEN "L150" ELSE "done",
                  !.i = 1])
    /\ UNCHANGED <<refresh_interval, metrics_history, callbacks, ticks,
                   stored>>

\* self.metrics_history.get(container_id, []), monitor.py:281
get_metrics_history(container_id) ==
    IF container_id \in DOMAIN metrics_history
    THEN metrics_history[container_id]
    ELSE <<>>

\* the eviction with pop() for pop(0): the newest entry goes
BufferDropNewest(container_id, container_metrics) ==
    LET appended == Append(get_metrics_history(container_id),
                           container_metrics)
    IN IF Len(appended) > HistoryCap
       THEN SubSeq(appended, 1, Len(appended) - 1)
       ELSE appended

\* monitor.py:151-157: the buffer of the container after the append
Buffer(container_id, container_metrics) ==
    LET appended == Append(get_metrics_history(container_id),
                           container_metrics)
    IN IF Len(appended) > HistoryCap THEN Tail(appended) ELSE appended

\* monitor.py:150-157: one container of the snapshot map per step
L150(t) ==
    /\ threads[t].pc = "L150"
    /\ LET th == threads[t]
           last == th.i > Len(th.metrics)
           id == th.metrics[th.i].id
       IN /\ metrics_history' =
                IF last THEN metrics_history
                ELSE DictSet(metrics_history, id,
                             Buffer(id, th.metrics[th.i]))
          /\ stored' =
                IF last THEN stored
                ELSE DictSet(stored, id,
                             Append(IF id \in DOMAIN stored THEN stored[id]
                                    ELSE <<>>, th.metrics[th.i]))
          /\ Goto(t, IF last THEN [th EXCEPT !.pc = "L160"]
                     ELSE [th EXCEPT !.i = th.i + 1])
    /\ UNCHANGED <<refresh_interval, callbacks, ticks>>

L160(t) ==
    /\ threads[t].pc = "L160"
    /\ Goto(t, [threads[t] EXCEPT
                  !.pc = IF StillRunning THEN "L164" ELSE "done",
                  !.k = 0, !.registered = callbacks])
    /\ UNCHANGED <<refresh_interval, metrics_history, callbacks, ticks,
                   stored>>

\* a try without its except clause: what the callback raises leaves it
PropagatesWhenRaised(callback) == callback \in RaisingCallbacks

\* monitor.py:165-168: whether an exception of the callback leaves the try
Propagates(callback) == FALSE

\* monitor.py:164-177: the iteration over the live callback list, one call
\* per step; after the last, the next tick time. An exception that left
\* the try would end the tick in the handler of monitor.py:179-184
L164(t) ==
    /\ threads[t].pc = "L164"
    /\ LET th == threads[t]
           more == th.k < Len(callbacks)
           callback == callbacks[th.k + 1]
           call == [callback |-> callback, metrics |-> th.metrics]
       IN Goto(t, IF more
                  THEN IF Propagates(callback)
                       THEN [th EXCEPT !.pc = "L187", !.ticked = TRUE,
                                       !.called = Append(@, call)]
                       ELSE [th EXCEPT !.k = @ + 1,
                                       !.called = Append(@, call)]
                  ELSE [th EXCEPT !.pc = "L187", !.ticked = TRUE])
    /\ UNCHANGED <<refresh_interval, metrics_history, callbacks, ticks,
                   stored>>

\* monitor.py:187-190
L187(t) ==
    /\ threads[t].pc = "L187"
    /\ Goto(t, [threads[t] EXCEPT !.pc = "L102"])
    /\ UNCHANGED <<refresh_interval, metrics_history, callbacks, ticks,
                   stored>>

\* the containers the Docker client lists
MonitorContainers == {"A", "B"}

\* the snapshot maps a collection at time now can return, in the order the
\* fetches completed
MonitorSnapshots(now) ==
    LET a == SnapshotEntry("A", now)
        b == SnapshotEntry("B", now)
    IN {<<>>, <<a>>, <<a, b>>}

\* container A in every snapshot; B with it in the first or never
HistorySnapshots(now) ==
    LET a == SnapshotEntry("A", now)
        b == SnapshotEntry("B", now)
    IN IF now = 1 THEN {<<a>>, <<a, b>>, <<b, a>>} ELSE {<<a>>}

\* the steps of loop thread t that take no input
LoopStep(t) ==
    \/ L102(t)
    \/ L113(t)
    \/ L123(t)
    \/ L146(t)
    \/ L150(t)
    \/ L160(t)
    \/ L164(t)
    \/ L187(t)

\* the clock at construction; no loop thread has locals yet
TInit ==
    /\ time = 0
    /\ next_update_time = <<>>
    /\ start_time = <<>>
    /\ busy_until = <<>>

\* no call of _collect_metrics yet
CInit ==
    /\ c_pc = "idle"
    /\ containers = <<>>
    /\ raising = {}
    /\ future = <<>>
    /\ fetches = <<>>
    /\ c_metrics = <<>>
    /\ c_ret = None

\* no call of get_container_stats yet
SInit ==
    /\ stats_obj = <<>>
    /\ stats_ret = <<>>
    /\ stats_raise = {}
    /\ stats_pair = <<>>
    /\ stats_metrics = <<>>

\* no call yet
WInit ==
    /\ join_until = 0
    /\ changed_at = -1
    /\ stopped = [at |-> -1, thread |-> 0, collecting |-> {}]

Init == AMInit /\ MInit /\ TInit /\ CInit /\ SInit /\ WInit

Next ==
    \/ \E metrics \in Snapshots : check_alerts(metrics)
    \/ \E m \in DefaultMetrics, v \in ThresholdValues :
           set_default_threshold(m, v)
    \/ \E c \in Containers, m \in OverrideMetrics, v \in ThresholdValues :
           set_container_threshold(c, m, v)
    \/ \E cb \in AlertCallbacks : am_add_callback(cb)

Spec ==
    Init
    /\ [][Next
          /\ UNCHANGED <<n_vars, m_vars, t_vars, c_vars, s_vars, w_vars>>]_vars

\* the callbacks NotifySpec registers
NotifyCallbacks == AlertCallbacks \cup RaisingCallbacks

NotifyNext ==
    \/ \E metrics \in Snapshots : check_alerts_begin(metrics)
    \/ check_alerts_notify
    \/ check_alerts_return
    \/ \E cb \in NotifyCallbacks :
          \/ am_pc = "idle" /\ am_add_callback(cb) /\ UNCHANGED n_vars
          \/ am_add_callback_during(cb)
          \/ am_remove_callback_during(cb)

NotifySpec ==
    Init
    /\ [][NotifyNext
          /\ UNCHANGED <<m_vars, t_vars, c_vars, s_vars, w_vars>>]_vars

MonitorNext ==
    \/ start_monitoring
    \/ stop_monitoring
    \/ stop_clear_history
    \/ stop_clear_callbacks
    \/ stop_join
    \/ \E cb \in MonitorCallbacks : add_callback(cb)
    \/ \E t \in 1..Len(threads) :
          \/ LoopStep(t)
          \/ \E due \in BOOLEAN : L104(t, due)
          \/ /\ ticks < MaxTicks
             /\ \/ L120(t, TRUE, <<>>)
                \/ \E metrics \in MonitorSnapshots(ticks + 1) :
                      L120(t, FALSE, metrics)
          \/ L127(t, FastCollection)

MonitorSpec ==
    Init
    /\ [][MonitorNext
          /\ UNCHANGED <<am_vars, n_vars, t_vars, c_vars, s_vars, w_vars>>]_vars

RestartNext ==
    \/ start_monitoring
    \/ stop_monitoring
    \/ stop_clear_history
    \/ stop_clear_callbacks
    \/ stop_join
    \/ \E cb \in MonitorCallbacks : add_callback(cb)
    \/ \E t \in 1..Len(threads) :
          \/ LoopStep(t)
          \/ \E due \in BOOLEAN : L104(t, due)
          \/ /\ ticks < MaxRestartTicks
             /\ \/ L120(t, TRUE, <<>>)
                \/ \E metrics \in MonitorSnapshots(ticks + 1) :
                      L120(t, FALSE, metrics)
          \/ L127(t, FastCollection)

RestartSpec ==
    Init
    /\ [][RestartNext
          /\ UNCHANGED <<am_vars, n_vars, t_vars, c_vars, s_vars, w_vars>>]_vars

\* collections in one behaviour of AdaptSpec
MaxAdaptTicks == 3

\* tenths of a second a collection takes in AdaptSpec
AdaptCollectionTimes == {FastCollection, 11, 15, 24, 70}

\* the arguments of set_interval in AdaptSpec
AdaptIntervalArgs == {-1, 0, 2, 7}

AdaptNext ==
    \/ start_monitoring
    \/ \E interval \in AdaptIntervalArgs : set_interval(interval)
    \/ \E t \in 1..Len(threads) :
          \/ LoopStep(t)
          \/ \E due \in BOOLEAN : L104(t, due)
          \/ /\ ticks < MaxAdaptTicks
             /\ \/ L120(t, TRUE, <<>>)
                \/ L120(t, FALSE, <<SnapshotEntry("A", ticks + 1)>>)
          \/ \E collection_time \in AdaptCollectionTimes :
                L127(t, collection_time)
          \/ L137(t)
          \/ L140(t)

AdaptSpec ==
    Init
    /\ [][AdaptNext
          /\ UNCHANGED <<am_vars, n_vars, t_vars, c_vars, s_vars,
                         w_vars>>]_vars

\* the buffer of a container after its first n snapshots, monitor.py:150-155
HistoryOf(container_id, n) ==
    [now \in 1..n |-> SnapshotEntry(container_id, now)]

\* the monitor at the top of its loop (monitor.py:102) after Prefilled
\* collections that found A each time and B the first time: a state that
\* HistoryNext reaches from MInit
LongRunning ==
    /\ refresh_interval = DefaultInterval
    /\ metrics_history = ("A" :> HistoryOf("A", Prefilled))
                          @@ ("B" :> HistoryOf("B", 1))
    /\ stored = metrics_history
    /\ running = TRUE
    /\ thread = 1
    /\ callbacks = <<>>
    /\ threads = <<[NewThread EXCEPT !.ticked = TRUE]>>
    /\ m_pc = "idle"
    /\ m_call = [op |-> "start_monitoring", was_running |-> FALSE]
    /\ ticks = Prefilled

\* the callbacks DispatchSpec registers
DispatchCallbacks == MonitorCallbacks \cup RaisingCallbacks

DispatchNext ==
    \/ start_monitoring
    \/ \E cb \in DispatchCallbacks : add_callback(cb)
    \/ \E cb \in DispatchCallbacks : remove_callback(cb)
    \/ \E t \in 1..Len(threads) :
          \/ LoopStep(t)
          \/ \E due \in BOOLEAN : L104(t, due)
          \/ /\ ticks < MaxTicks
             /\ \E metrics \in MonitorSnapshots(ticks + 1) :
                   L120(t, FALSE, metrics)
          \/ L127(t, FastCollection)

DispatchSpec ==
    Init
    /\ [][DispatchNext
          /\ UNCHANGED <<am_vars, n_vars, t_vars, c_vars, s_vars, w_vars>>]_vars

HistoryInit ==
    AMInit /\ (MInit \/ LongRunning) /\ TInit /\ CInit /\ SInit /\ WInit

HistoryNext ==
    \/ start_monitoring
    \/ \E t \in 1..Len(threads) :
          \/ LoopStep(t)
          \/ L104(t, TRUE)
          \/ /\ ticks < MaxAppends
             /\ \E metrics \in HistorySnapshots(ticks + 1) :
                   L120(t, FALSE, metrics)
          \/ L127(t, FastCollection)

HistorySpec ==
    HistoryInit
    /\ [][HistoryNext
          /\ UNCHANGED <<am_vars, n_vars, t_vars, c_vars, s_vars, w_vars>>]_vars

----------------------------------------------------------------------------
(* The loop under the wall clock. A step of the loop takes no time, except  *)
(* the collection (monitor.py:120) and the sleep (monitor.py:190).          *)

\* the loop thread t is neither sleeping nor waiting for its collection
Runnable(t) == Alive(t) /\ busy_until[t] <= time

\* the next tick time without the reset of monitor.py:176-177
NextUpdateTimeReplayed(anchor, current_time, interval) ==
    anchor + Seconds(interval)

\* monitor.py:172-177, the next tick time at the end of a completed tick
NextUpdateTime(anchor, current_time, interval) ==
    IF anchor + Seconds(interval) < current_time
    THEN current_time + Seconds(interval)
    ELSE anchor + Seconds(interval)

\* one sleep until the next tick time: max(0.1, remaining)
SleepTimeUncapped(remaining) == IF remaining > 1 THEN remaining ELSE 1

\* monitor.py:187, max(0.1, min(0.5, remaining)) in tenths of a second
SleepTime(remaining) ==
    LET capped == IF remaining < 5 THEN remaining ELSE 5
    IN IF capped > 1 THEN capped ELSE 1

\* monitor.py:40-48 and, on the new thread, monitor.py:99
TStart ==
    /\ start_monitoring
    /\ IF running
       THEN UNCHANGED <<next_update_time, start_time, busy_until>>
       ELSE /\ next_update_time' = Append(next_update_time, time)
            /\ start_time' = Append(start_time, 0)
            /\ busy_until' = Append(busy_until, 0)
    /\ UNCHANGED time

\* a step of the loop that reads no clock
TLoopStep(t) ==
    /\ Runnable(t)
    /\ \/ L102(t)
       \/ L123(t)
       \/ L137(t)
       \/ L140(t)
       \/ L146(t)
       \/ L150(t)
       \/ L160(t)
    /\ UNCHANGED t_vars

\* monitor.py:107-110
TL104(t) ==
    /\ Runnable(t)
    /\ L104(t, time >= next_update_time[t])
    /\ UNCHANGED t_vars

\* monitor.py:113-120: start_time, and the call of _collect_metrics, which
\* returns after duration
TL113(t, duration) ==
    /\ Runnable(t)
    /\ L113(t)
    /\ start_time' = [start_time EXCEPT ![t] = IF running THEN time ELSE 0]
    /\ busy_until' =
          [busy_until EXCEPT ![t] = IF running THEN time + duration ELSE 0]
    /\ UNCHANGED <<time, next_update_time>>

\* _collect_metrics raises outside the try of the loop: the thread ends
TL120_unhandled(t, raised, metrics) ==
    /\ Runnable(t)
    /\ threads[t].pc = "L120"
    /\ ticks' = ticks + 1
    /\ Goto(t, IF raised
               THEN [threads[t] EXCEPT !.pc = "done"]
               ELSE [threads[t] EXCEPT !.pc = "L123", !.metrics = metrics,
                                       !.called = <<>>])
    /\ UNCHANGED <<refresh_interval, metrics_history, callbacks, stored>>
    /\ UNCHANGED t_vars

\* monitor.py:120, and 179-184 when _collect_metrics raises
TL120(t, raised, metrics) ==
    /\ Runnable(t)
    /\ L120(t, raised, metrics)
    /\ next_update_time' =
          IF raised
          THEN [next_update_time EXCEPT
                  ![t] = time + Seconds(refresh_interval)]
          ELSE next_update_time
    /\ start_time' = IF raised THEN [start_time EXCEPT ![t] = 0]
                     ELSE start_time
    /\ UNCHANGED <<time, busy_until>>

\* monitor.py:127-143
TL127(t) ==
    /\ Runnable(t)
    /\ L127(t, time - start_time[t])
    /\ start_time' = [start_time EXCEPT ![t] = 0]
    /\ UNCHANGED <<time, next_update_time, busy_until>>

\* monitor.py:164-177
TL164(t) ==
    /\ Runnable(t)
    /\ L164(t)
    /\ next_update_time' =
          IF threads[t].k < Len(callbacks)
          THEN next_update_time
          ELSE [next_update_time EXCEPT
                  ![t] = NextUpdateTime(@, time, refresh_interval)]
    /\ UNCHANGED <<time, start_time, busy_until>>

\* monitor.py:187-190
TL187(t) ==
    /\ Runnable(t)
    /\ L187(t)
    /\ busy_until' =
          [busy_until EXCEPT
             ![t] = time + SleepTime(next_update_time[t] - time)]
    /\ UNCHANGED <<time, next_update_time, start_time>>

\* the loop threads that sleep or wait for their collection
Waiting == {t \in 1..Len(threads) : Alive(t) /\ busy_until[t] > time}

\* time passes until the first of the waiting threads goes on
Advance ==
    /\ Waiting # {}
    /\ \A t \in 1..Len(threads) : ~Runnable(t)
    /\ \E t \in Waiting :
          /\ \A u \in Waiting : busy_until[t] <= busy_until[u]
          /\ time' = busy_until[t]
    /\ UNCHANGED <<m_vars, next_update_time, start_time, busy_until>>

\* collections in one behaviour of TimedSpec
MaxTimedTicks == 3

\* tenths of a second a collection takes in TimedSpec
CollectionTimes == {FastCollection, 70, 80, 90}

\* the arguments of set_interval
IntervalArgs == {0, 2}

\* the snapshot map of a collection in TimedSpec: container A
TimedSnapshots(n) == {<<SnapshotEntry("A", n)>>}

TimedNext ==
    \/ TStart
    \/ \E interval \in IntervalArgs :
          set_interval(interval) /\ UNCHANGED t_vars
    \/ /\ threads = <<>>
       /\ \E cb \in MonitorCallbacks : add_callback(cb) /\ UNCHANGED t_vars
    \/ \E t \in 1..Len(threads) :
          \/ TLoopStep(t)
          \/ TL104(t)
          \/ \E duration \in CollectionTimes : TL113(t, duration)
          \/ /\ ticks < MaxTimedTicks
             /\ \/ TL120(t, TRUE, <<>>)
                \/ \E metrics \in TimedSnapshots(ticks + 1) :
                      TL120(t, FALSE, metrics)
          \/ TL127(t)
          \/ TL164(t)
          \/ TL187(t)
    \/ Advance

TimedSpec ==
    Init
    /\ [][TimedNext
          /\ UNCHANGED <<am_vars, n_vars, c_vars, s_vars, w_vars>>]_vars

----------------------------------------------------------------------------
(* _collect_metrics (monitor.py:230-269) and its worker pool. A container   *)
(* is its id, a number.                                                     *)

\* containers listed in the larger listing of CollectSpec
Listed == 12
\* containers listed in the smaller listing, any of which may fail
FewListed == 3
\* min(10, cpu_count * 2) on a host with five cores or more, monitor.py:37
max_workers == 10

\* None in the place of a metrics dict
NoMetrics == [id |-> 0, timestamp |-> 0]

\* _collect_container_stats that answers a failed fetch with a snapshot
collect_container_stats_always(container_id, raised) ==
    <<container_id, SnapshotEntry(container_id, 1)>>

\* monitor.py:192-228: the pair _collect_container_stats returns
collect_container_stats(container_id, raised) ==
    IF raised
    THEN <<container_id, NoMetrics>>
    ELSE <<container_id, SnapshotEntry(container_id, 1)>>

\* the work items a worker is running
InFlight == {i \in 1..Len(future) : future[i].state = "running"}

\* a pool that starts a thread for every work item
WorkerFreeAlways == TRUE

\* ThreadPoolExecutor(max_workers=self.max_workers), monitor.py:249: a work
\* item waits in the queue while max_workers items are running
WorkerFree == Cardinality(InFlight) < max_workers

\* monitor.py:237-246
collect_list(listing, failing) ==
    /\ c_pc = "idle"
    /\ containers' = listing
    /\ raising' = failing
    /\ fetches' = [c \in Range(listing) |-> 0]
    /\ c_pc' = "L252"
    /\ UNCHANGED <<future, c_metrics, c_ret>>

\* monitor.py:251-254: one executor.submit of the comprehension, or its end
collect_submit ==
    /\ c_pc = "L252"
    /\ IF Len(future) < Len(containers)
       THEN /\ future' = Append(future, [state |-> "queued",
                                         result |-> <<0, NoMetrics>>])
            /\ UNCHANGED c_pc
       ELSE /\ c_pc' = "L257"
            /\ UNCHANGED future
    /\ UNCHANGED <<containers, raising, fetches, c_metrics, c_ret>>

\* a worker takes the oldest work item of the queue, the one submitted
\* first, and calls get_container_stats (monitor.py:207)
worker_start(i) ==
    /\ future[i].state = "queued"
    /\ IF i = 1 THEN TRUE ELSE future[i - 1].state # "queued"
    /\ WorkerFree
    /\ future' = [future EXCEPT ![i].state = "running"]
    /\ fetches' = [fetches EXCEPT ![containers[i]] = @ + 1]
    /\ UNCHANGED <<c_pc, containers, raising, c_metrics, c_ret>>

\* monitor.py:205-228: the fetch returns or raises, and the work item is done
worker_finish(i) ==
    /\ future[i].state = "running"
    /\ future' = [future EXCEPT
                    ![i] = [state |-> "done",
                            result |-> collect_container_stats(
                                          containers[i],
                                          containers[i] \in raising)]]
    /\ UNCHANGED <<c_pc, containers, raising, fetches, c_metrics, c_ret>>

\* monitor.py:257-261: as_completed yields a finished future
collect_result(i) ==
    /\ c_pc = "L257"
    /\ future[i].state = "done"
    /\ LET container_id == future[i].result[1]
           container_metrics == future[i].result[2]
       IN c_metrics' = IF container_metrics # NoMetrics
                       THEN DictSet(c_metrics, container_id,
                                    container_metrics)
                       ELSE c_metrics
    /\ future' = [future EXCEPT ![i].state = "yielded"]
    /\ UNCHANGED <<c_pc, containers, raising, fetches, c_ret>>

\* monitor.py:257 and 264-269: as_completed has yielded every future, the
\* with block shuts the pool down and the call returns
collect_return ==
    /\ c_pc = "L257"
    /\ \A i \in 1..Len(future) : future[i].state = "yielded"
    /\ c_ret' = c_metrics
    /\ c_pc' = "returned"
    /\ UNCHANGED <<containers, raising, future, fetches, c_metrics>>

\* the containers 1..n in the order of the listing
Listing(n) == [i \in 1..n |-> i]

CollectNext ==
    \/ \E failing \in SUBSET (1..FewListed) :
          collect_list(Listing(FewListed), failing)
    \/ collect_list(Listing(Listed), {})
    \/ collect_list(Listing(0), {})
    \/ collect_submit
    \/ \E i \in 1..Len(future) :
          \/ worker_start(i)
          \/ worker_finish(i)
          \/ collect_result(i)
    \/ collect_return

CollectSpec ==
    Init
    /\ [][CollectNext
          /\ UNCHANGED <<am_vars, n_vars, m_vars, t_vars, s_vars, w_vars>>]_vars

----------------------------------------------------------------------------
(* The loop, its caller and the clock: start, stop and set_interval while   *)
(* the loop thread sleeps or collects.                                      *)

\* collections started in one behaviour of WaitSpec
MaxWaitTicks == 1

\* tenths of a second a collection takes in WaitSpec: less and more than
\* the join of stop_monitoring waits
WaitCollectionTimes == {FastCollection, 8}

\* the loop thread t has completed a tick and its next tick is not due
WaitingBetweenTicks(t) ==
    /\ t \in 1..Len(threads)
    /\ Alive(t)
    /\ threads[t].ticked
    /\ threads[t].pc \in {"L187", "L102", "L104"}
    /\ time < next_update_time[t]

\* the loop threads inside _collect_metrics
Collecting == {t \in 1..Len(threads) : threads[t].pc = "L120"}

WStart ==
    /\ TStart
    /\ stopped' = [at |-> -1, thread |-> 0, collecting |-> {}]
    /\ UNCHANGED <<join_until, changed_at>>

WSetInterval(interval) ==
    /\ set_interval(interval)
    /\ changed_at' = IF running /\ WaitingBetweenTicks(thread) THEN time
                     ELSE -1
    /\ UNCHANGED <<t_vars, join_until, stopped>>

\* monitor.py:50-56
WStop ==
    /\ stop_monitoring
    /\ stopped' = IF ~running THEN stopped
                  ELSE IF WaitingBetweenTicks(thread)
                  THEN [at |-> time, thread |-> thread,
                        collecting |-> Collecting]
                  ELSE [at |-> -1, thread |-> 0, collecting |-> Collecting]
    /\ changed_at' = IF running THEN -1 ELSE changed_at
    /\ UNCHANGED <<t_vars, join_until>>

\* monitor.py:59
WStopClearHistory ==
    /\ stop_clear_history
    /\ UNCHANGED <<t_vars, w_vars>>

\* monitor.py:60-65: the join begins, join(timeout=0.5)
WStopClearCallbacks ==
    /\ stop_clear_callbacks
    /\ join_until' = time + 5
    /\ UNCHANGED <<t_vars, changed_at, stopped>>

\* the join of monitor.py:65 cannot return yet
JoinBlocked == m_pc = "L62" /\ Alive(thread) /\ time < join_until

\* monitor.py:62-75: the join returns when the thread has ended, or gives up
WStopJoin ==
    /\ ~JoinBlocked
    /\ stop_join
    /\ join_until' = 0
    /\ UNCHANGED <<t_vars, changed_at, stopped>>

\* monitor.py:113-120, while collections may start
WL113(t, duration) ==
    /\ running => ticks + Cardinality(Collecting) < MaxWaitTicks
    /\ TL113(t, duration)
    /\ changed_at' = IF running THEN -1 ELSE changed_at
    /\ UNCHANGED <<join_until, stopped>>

\* a step of loop thread t other than the start of a collection
WLoopStep(t) ==
    /\ \/ TLoopStep(t)
       \/ TL104(t)
       \/ TL120(t, TRUE, <<>>)
       \/ \E metrics \in TimedSnapshots(ticks + 1) : TL120(t, FALSE, metrics)
       \/ TL127(t)
       \/ TL164(t)
       \/ TL187(t)
    /\ UNCHANGED w_vars

\* the calling thread is inside stop_monitoring and not in its join
Stopping == m_pc \in {"L59", "L60"} \/ (m_pc = "L62" /\ ~JoinBlocked)

\* when the threads that wait go on: the sleeps, the collections, the join
Wakes ==
    {busy_until[t] : t \in Waiting}
       \cup (IF JoinBlocked THEN {join_until} ELSE {})

\* time passes until the first of the waiting threads goes on
WAdvance ==
    /\ Wakes # {}
    /\ ~Stopping
    /\ \A t \in 1..Len(threads) : ~Runnable(t)
    /\ \E wake \in Wakes :
          /\ \A other \in Wakes : wake <= other
          /\ time' = wake
    /\ UNCHANGED <<m_vars, next_update_time, start_time, busy_until, w_vars>>

WaitNext ==
    \/ WStart
    \/ \E interval \in IntervalArgs : WSetInterval(interval)
    \/ WStop
    \/ WStopClearHistory
    \/ WStopClearCallbacks
    \/ WStopJoin
    \/ \E t \in 1..Len(threads) :
          \/ WLoopStep(t)
          \/ \E duration \in WaitCollectionTimes : WL113(t, duration)
    \/ WAdvance

WaitSpec ==
    Init
    /\ [][WaitNext /\ UNCHANGED <<am_vars, n_vars, c_vars, s_vars>>]_vars

\* a step of loop thread t
WThreadStep(t) ==
    /\ t \in 1..Len(threads)
    /\ \/ WLoopStep(t)
       \/ \E duration \in WaitCollectionTimes : WL113(t, duration)
    /\ UNCHANGED <<am_vars, n_vars, c_vars, s_vars>>

\* a step of the calling thread inside stop_monitoring
WStopStep ==
    /\ WStopClearHistory \/ WStopClearCallbacks \/ WStopJoin
    /\ UNCHANGED <<am_vars, n_vars, c_vars, s_vars>>

\* WaitSpec where a thread that can take a step takes it, the collection
\* in progress returns, and time passes
WaitFairSpec ==
    /\ WaitSpec
    /\ \A t \in 1..MaxThreads : WF_vars(WThreadStep(t))
    /\ WF_vars(WStopStep)
    /\ WF_vars(WAdvance /\ UNCHANGED <<am_vars, n_vars, c_vars, s_vars>>)

----------------------------------------------------------------------------
(* DockerClient.get_container_stats (docker_client.py:239-345). A dict is   *)
(* a function on its keys; numbers are whole, and chosen so that the        *)
(* quotients of the code are whole as well.                                 *)

\* d.get(key, default)
Get(d, key, default) == IF key \in DOMAIN d THEN d[key] ELSE default

\* (part / whole) * 100.0
Percent(part, whole) == (part * 100) \div whole

\* the CPU percentage without the test of the two deltas
cpu_percent_unclamped(obj) ==
    LET cpu_stats == Get(obj, "cpu_stats", <<>>)
        precpu_stats == Get(obj, "precpu_stats", <<>>)
        cpu_delta ==
           Get(Get(cpu_stats, "cpu_usage", <<>>), "total_usage", 0)
           - Get(Get(precpu_stats, "cpu_usage", <<>>), "total_usage", 0)
        system_cpu_usage == Get(cpu_stats, "system_cpu_usage", 0)
        pre_system_cpu_usage == Get(precpu_stats, "system_cpu_usage", 0)
        system_delta == system_cpu_usage - pre_system_cpu_usage
    IN IF system_cpu_usage # 0 /\ pre_system_cpu_usage # 0
          /\ system_delta # 0
       THEN Percent(cpu_delta, system_delta)
       ELSE 0

\* docker_client.py:269-294
cpu_percent(obj) ==
    LET cpu_stats == Get(obj, "cpu_stats", <<>>)
        precpu_stats == Get(obj, "precpu_stats", <<>>)
        cpu_delta ==
           Get(Get(cpu_stats, "cpu_usage", <<>>), "total_usage", 0)
           - Get(Get(precpu_stats, "cpu_usage", <<>>), "total_usage", 0)
        system_cpu_usage == Get(cpu_stats, "system_cpu_usage", 0)
        pre_system_cpu_usage == Get(precpu_stats, "system_cpu_usage", 0)
        system_delta == system_cpu_usage - pre_system_cpu_usage
        reported == Get(cpu_stats, "online_cpus", 0)
        counted ==
           IF reported = 0
              /\ "cpu_usage" \in DOMAIN cpu_stats
              /\ "percpu_usage" \in DOMAIN Get(cpu_stats, "cpu_usage", <<>>)
           THEN Len(cpu_stats.cpu_usage.percpu_usage)
           ELSE reported
        online_cpus == IF counted = 0 THEN 1 ELSE counted
    IN IF system_cpu_usage # 0 /\ pre_system_cpu_usage # 0
          /\ system_delta > 0 /\ cpu_delta > 0
       THEN Percent(cpu_delta * online_cpus, system_delta)
       ELSE 0

\* docker_client.py:296-310: usage, limit and percent of the memory
memory(obj) ==
    LET memory_stats == Get(obj, "memory_stats", <<>>)
        memory_usage == Get(memory_stats, "usage", 0)
        memory_limit == Get(memory_stats, "limit", 1)
    IN IF DOMAIN memory_stats = {}
       THEN [usage |-> 0, limit |-> 0, percent |-> 0]
       ELSE [usage |-> memory_usage, limit |-> memory_limit,
             percent |-> IF memory_limit > 0
                         THEN Percent(memory_usage, memory_limit)
                         ELSE 0]

\* docker_client.py:312-322: the sum of a counter over the interfaces
network(obj, counter) ==
    LET networks == Get(obj, "networks", <<>>)
        Sum[interfaces \in SUBSET DOMAIN networks] ==
           IF interfaces = {} THEN 0
           ELSE LET interface == CHOOSE x \in interfaces : TRUE
                IN Get(networks[interface], counter, 0)
                   + Sum[interfaces \ {interface}]
    IN Sum[DOMAIN networks]

\* docker_client.py:258-267 and 338-345: the record of an empty answer and of
\* a failed call
ZeroStats ==
    [cpu_percent |-> 0, memory_usage |-> 0, memory_limit |-> 0,
     memory_percent |-> 0, network_rx |-> 0, network_tx |-> 0]

\* an exception that leaves get_container_stats
Propagated == [exception |-> "DockerException"]

\* The places of the call where an exception is raised: "stats" when
\* api_client.stats raises (line 255); "cpu_stats" when a subscript or the
\* arithmetic of lines 272-292 does, as for a section that is None;
\* "memory_stats" when the division of line 308 does, as for a usage that is
\* no number; "networks" when the first += of lines 319-320 does.
RaisePlaces == {"stats", "cpu_stats", "memory_stats", "networks"}

\* the record of obj, section by section; an except clause of a section
\* (lines 293, 309, 325) leaves it at the values assigned so far
sections(obj, raise) ==
    [cpu_percent |-> IF "cpu_stats" \in raise THEN 0 ELSE cpu_percent(obj),
     memory_usage |-> memory(obj).usage,
     memory_limit |-> memory(obj).limit,
     memory_percent |-> IF "memory_stats" \in raise
                        THEN 0 ELSE memory(obj).percent,
     network_rx |-> IF "networks" \in raise
                    THEN 0 ELSE network(obj, "rx_bytes"),
     network_tx |-> IF "networks" \in raise
                    THEN 0 ELSE network(obj, "tx_bytes")]

\* get_container_stats without the except clause of lines 336-345
container_stats_propagating(obj, raise) ==
    IF "stats" \in raise THEN Propagated
    ELSE IF DOMAIN obj = {} THEN ZeroStats
    ELSE sections(obj, raise)

\* docker_client.py:252-345: what the call returns when api_client.stats
\* answers obj, or raises
container_stats(obj, raise) ==
    IF "stats" \in raise THEN ZeroStats
    ELSE IF DOMAIN obj = {} THEN ZeroStats
    ELSE sections(obj, raise)

\* docker_client.py:239-345
get_container_stats ==
    /\ stats_ret' = container_stats(stats_obj, stats_raise)
    /\ UNCHANGED <<stats_obj, stats_raise, stats_pair, stats_metrics>>

\* container['Id'] of the container the monitor asks for, monitor.py:201
StatsContainer == 1

\* monitor.py:214-224: the metrics dict made of the record; name and status
\* are those of the listing, the timestamp is the clock's
metrics_of(container_id, stats) ==
    [id |-> container_id,
     cpu_percent |-> Get(stats, "cpu_percent", 0),
     memory_usage |-> Get(stats, "memory_usage", 0),
     memory_percent |-> Get(stats, "memory_percent", 0),
     network_rx |-> Get(stats, "network_rx", 0),
     network_tx |-> Get(stats, "network_tx", 0)]

\* monitor.py:205-228: _collect_container_stats calls get_container_stats
\* and returns the pair, with None when the call raised
StatsCollect ==
    /\ stats_ret' = container_stats(stats_obj, stats_raise)
    /\ stats_pair' = IF stats_ret' = Propagated
                     THEN <<StatsContainer, NoMetrics>>
                     ELSE <<StatsContainer,
                            metrics_of(StatsContainer, stats_ret')>>
    /\ UNCHANGED <<stats_obj, stats_raise, stats_metrics>>

\* monitor.py:259-261: the pair of the future is entered in the map
StatsResult ==
    /\ stats_pair # <<>>
    /\ stats_metrics' = IF stats_pair[2] # NoMetrics
                        THEN DictSet(stats_metrics, stats_pair[1],
                                     stats_pair[2])
                        ELSE stats_metrics
    /\ UNCHANGED <<stats_obj, stats_ret, stats_raise, stats_pair>>

\* the dicts with no key, or with the key and one of the values
Optional(key, values) == {<<>>} \cup {key :> v : v \in values}

\* the dicts that have the keys of one dict of each set
Merged(ds, es) == {d @@ e : d \in ds, e \in es}

\* cpu_usage of a sample: total_usage, and percpu_usage for two cores
CpuUsages ==
    Merged(Optional("total_usage", {100, 300}),
           Optional("percpu_usage", {<<50, 50>>}))

\* cpu_stats, the current sample
CpuStats ==
    Merged(Merged(Optional("cpu_usage", CpuUsages),
                  Optional("system_cpu_usage", {0, 1000, 2000})),
           Optional("online_cpus", {0, 4}))

\* precpu_stats, the sample before it
PreCpuStats ==
    Merged(Optional("cpu_usage", Optional("total_usage", {100, 300})),
           Optional("system_cpu_usage", {0, 1000, 2000}))

\* memory_stats
MemoryStats ==
    Merged(Optional("usage", {0, 50}), Optional("limit", {0, 100, 200}))

\* networks
Networks == {[eth0 |-> [rx_bytes |-> 10, tx_bytes |-> 20]]}

\* what api_client.stats answers with
RawStats ==
    Merged(Merged(Optional("cpu_stats", CpuStats),
                  Optional("precpu_stats", PreCpuStats)),
           Merged(Optional("memory_stats", MemoryStats),
                  Optional("networks", Networks)))

StatsInit ==
    /\ AMInit /\ MInit /\ TInit /\ CInit /\ WInit
    /\ stats_obj \in RawStats
    /\ stats_raise \in SUBSET RaisePlaces
    /\ stats_ret = <<>>
    /\ stats_pair = <<>>
    /\ stats_metrics = <<>>

StatsNext ==
    \/ get_container_stats
    \/ StatsCollect
    \/ StatsResult

StatsSpec ==
    StatsInit
    /\ [][StatsNext
          /\ UNCHANGED <<am_vars, n_vars, m_vars, t_vars, c_vars, w_vars>>]_vars

----------------------------------------------------------------------------
(* Vocabulary of the AlertManager properties *)

AllPairs == Containers \X Range(EvaluatedMetrics)

\* the (container, metric) pairs an active set holds an alert for
ActivePairs(alerts) == {<<a.container_id, a.metric>> : a \in Range(alerts)}

\* the pairs a snapshot reports a value for
ReportedPairs(metrics) ==
    {p \in AllPairs : \E i \in 1..Len(metrics) :
        metrics[i].id = p[1] /\ p[2] \in DOMAIN metrics[i].metrics}

ReportedValue(metrics, p) ==
    LET i == CHOOSE k \in 1..Len(metrics) : metrics[k].id = p[1]
    IN metrics[i].metrics[p[2]]

\* the pairs of a snapshot whose value is over the threshold in force
OverThreshold(metrics) ==
    {p \in ReportedPairs(metrics) :
        ReportedValue(metrics, p) > get_threshold(p[1], p[2])}

\* the entries a call appended to the history
Appended(before, after) == SubSeq(after, Len(before) + 1, Len(after))

EntriesFor(seq, p) ==
    SelectSeq(seq, LAMBDA a : a.container_id = p[1] /\ a.metric = p[2])

\* a step that is one check_alerts call
CheckStep == am_checks' = am_checks + 1

\* container ids that contain the separator and the metric names
ContainerIds ==
    Containers \cup {"", "A_cpu", "A_cpu_percent", "A_memory",
                     "A_memory_percent", "B_memory_percent_cpu"}

\* the threshold the calls made so far ask for: the last override set for the
\* pair, else the last default set for the metric, else the default of
\* __init__, else none
RequestedThreshold(container_id, metric) ==
    IF <<container_id, metric>> \in DOMAIN am_requested.override
    THEN am_requested.override[<<container_id, metric>>]
    ELSE IF metric \in DOMAIN am_requested.default
         THEN am_requested.default[metric]
         ELSE IF metric \in {"cpu_percent", "memory_percent"} THEN 80
              ELSE Inf

\* no two different pairs have the same alert key
KeysDistinct ==
    \A c1, c2 \in ContainerIds, m1, m2 \in Range(EvaluatedMetrics) :
       AlertId(c1, m1) = AlertId(c2, m2) => c1 = c2 /\ m1 = m2

----------------------------------------------------------------------------
(* C1: in every state the calls can reach, the active set holds at most one *)
(* alert per (container_id, metric) pair, each alert is stored under the    *)
(* key of its own pair, and no two different pairs have the same key.       *)
C1_OneAlertPerPair ==
    /\ \A i, j \in 1..Len(active_alerts) :
          (/\ active_alerts[i].container_id = active_alerts[j].container_id
           /\ active_alerts[i].metric = active_alerts[j].metric) => i = j
    /\ \A i \in 1..Len(active_alerts) :
          /\ active_alerts[i].id = AlertId(active_alerts[i].container_id,
                                           active_alerts[i].metric)
          /\ \A p \in AllPairs :
                AlertId(p[1], p[2]) = active_alerts[i].id
                   => p = <<active_alerts[i].container_id,
                            active_alerts[i].metric>>
    /\ KeysDistinct

\* both metrics of one container and a second container alert at once
C1_Witness ==
    /\ am_call.op = "check_alerts"
    /\ ActivePairs(active_alerts) = {<<"A", "cpu_percent">>,
                                     <<"A", "memory_percent">>,
                                     <<"B", "memory_percent">>}

(* C2: when check_alerts(snapshot) has returned, a pair has an active alert *)
(* exactly if the snapshot reports a value for it that is strictly greater  *)
(* than its threshold; a value equal to the threshold and a missing pair    *)
(* leave no alert.                                                          *)
C2_ActiveIffOver ==
    am_call.op = "check_alerts" =>
        ActivePairs(active_alerts) = OverThreshold(am_call.metrics)

\* A's cpu reading equals its threshold, A's memory is over, B is missing
C2_Witness ==
    /\ am_call.op = "check_alerts"
    /\ <<"A", "cpu_percent">> \in ReportedPairs(am_call.metrics)
    /\ ReportedValue(am_call.metrics, <<"A", "cpu_percent">>)
          = get_threshold("A", "cpu_percent")
    /\ ActivePairs(active_alerts) = {<<"A", "memory_percent">>}
    /\ "B" \notin Ids(am_call.metrics)
    /\ \E i \in 1..Len(alert_history) :
          alert_history[i].container_id = "B"

(* C3: check_alerts returns one alert for each pair that was not active     *)
(* before the call and is over its threshold in the snapshot, and nothing   *)
(* else: no updated alert, no resolved one; every returned alert is in the  *)
(* active set when the call returns.                                        *)
C3_ReturnsNew ==
    [][CheckStep =>
        /\ ActivePairs(am_ret') =
              OverThreshold(am_call'.metrics) \ ActivePairs(active_alerts)
        /\ Len(am_ret') = Cardinality(ActivePairs(am_ret'))
        /\ \A i \in 1..Len(am_ret') :
              /\ am_ret'[i] \in Range(active_alerts')
              /\ am_ret'[i].status = "active"
              /\ am_ret'[i].start_time = am_checks']_vars

\* one call that creates an alert, updates another and resolves a third
C3_Witness ==
    /\ am_call.op = "check_alerts"
    /\ Len(am_ret) = 1
    /\ \E i \in 1..Len(active_alerts) :
          /\ active_alerts[i].start_time < am_checks
          /\ active_alerts[i].last_updated = am_checks
    /\ \E i \in 1..Len(alert_history) :
          /\ alert_history[i].status = "resolved"
          /\ alert_history[i].resolve_time = am_checks

(* C4: a check_alerts call that directly follows a check_alerts call with   *)
(* the same snapshot returns the empty list, invokes no callback and leaves *)
(* the active pairs and the alert history as the first call left them.      *)
C4_Idempotent ==
    [][(/\ CheckStep
        /\ am_call.op = "check_alerts"
        /\ am_call'.metrics = am_call.metrics) =>
        /\ am_ret' = <<>>
        /\ am_notified' = <<>>
        /\ ActivePairs(active_alerts') = ActivePairs(active_alerts)
        /\ alert_history' = alert_history]_vars

\* the repeated call finds alerts active and a callback registered
C4_Witness ==
    /\ am_call.op = "check_alerts"
    /\ am_call.repeated
    /\ Len(active_alerts) >= 2
    /\ alert_callbacks # <<>>

(* C5: an active alert whose pair the next snapshot does not report (the    *)
(* container is absent, or present without the metric) is, within that      *)
(* call, removed from the active set, and exactly one resolved copy of it   *)
(* is appended to the history.                                              *)
C5_AutoResolve ==
    [][CheckStep =>
        \A i \in 1..Len(active_alerts) :
           LET a == active_alerts[i]
               p == <<a.container_id, a.metric>>
               new == EntriesFor(Appended(alert_history, alert_history'), p)
           IN p \notin ReportedPairs(am_call'.metrics) =>
                 /\ p \notin ActivePairs(active_alerts')
                 /\ ~IsActive(active_alerts', a.id)
                 /\ new = <<Resolved(a, am_checks')>>]_vars

\* one call auto-resolves the alert of an absent container and the alert of
\* a metric its container no longer reports
C5_Witness ==
    /\ am_call.op = "check_alerts"
    /\ \E i, j \in 1..Len(alert_history) :
          /\ alert_history[i].status = "resolved"
          /\ alert_history[i].resolve_time = am_checks
          /\ alert_history[i].container_id \notin Ids(am_call.metrics)
          /\ alert_history[j].status = "resolved"
          /\ alert_history[j].resolve_time = am_checks
          /\ alert_history[j].container_id \in Ids(am_call.metrics)
          /\ <<alert_history[j].container_id, alert_history[j].metric>>
                \notin ReportedPairs(am_call.metrics)

(* C6: once the alert of a pair is resolved, a check_alerts call whose      *)
(* snapshot does not report the pair, or reports it at or under the         *)
(* threshold, does nothing for the pair: no alert in the active set, no     *)
(* history entry, nothing returned.                                         *)
C6_ResolvedOnce ==
    [][CheckStep =>
        \A p \in AllPairs :
           LET past == EntriesFor(alert_history, p)
           IN (/\ past # <<>>
               /\ past[Len(past)].status = "resolved"
               /\ p \notin OverThreshold(am_call'.metrics)) =>
                 /\ p \notin ActivePairs(active_alerts')
                 /\ EntriesFor(Appended(alert_history, alert_history'), p)
                       = <<>>
                 /\ EntriesFor(am_ret', p) = <<>>]_vars

\* the third call: the alert was raised by the first, resolved by the second
\* with the value at the threshold, and the container is now absent
C6_Witness ==
    /\ am_call.op = "check_alerts"
    /\ am_checks = 3
    /\ am_sets = 0
    /\ am_call.metrics = <<>>
    /\ active_alerts = <<>>
    /\ Len(alert_history) = 2
    /\ alert_history[1].id = AlertId("A", "cpu_percent")
    /\ alert_history[1].status = "active"
    /\ alert_history[1].start_time = 1
    /\ alert_history[2].id = AlertId("A", "cpu_percent")
    /\ alert_history[2].status = "resolved"
    /\ alert_history[2].resolve_time = 2

(* C7: get_threshold returns the override last set for the container and    *)
(* metric if there is one, whatever the order of the set_default_threshold  *)
(* and set_container_threshold calls, else the default of the metric, else  *)
(* +infinity, which no value exceeds; check_alerts records this threshold   *)
(* in the alerts it raises.                                                 *)
C7_ThresholdLookup ==
    /\ \A c \in Containers, m \in DefaultMetrics :
          /\ get_threshold(c, m) = RequestedThreshold(c, m)
          /\ (m \notin DOMAIN am_requested.default \cup
                       {"cpu_percent", "memory_percent"}
              /\ <<c, m>> \notin DOMAIN am_requested.override) =>
                 /\ get_threshold(c, m) = Inf
                 /\ \A v \in {0, 60, 90, Inf} :
                       ~Exceeds(v, get_threshold(c, m))
    /\ am_call.op = "check_alerts" =>
          \A i \in 1..Len(am_ret) :
             /\ am_ret[i].threshold =
                   RequestedThreshold(am_ret[i].container_id, am_ret[i].metric)
             /\ am_ret[i].value > am_ret[i].threshold

\* override 50 for B's memory_percent, default 80, reading 60: an alert with
\* threshold 50; the default was set by a call too
C7_Witness ==
    /\ am_call.op = "check_alerts"
    /\ am_requested.override = (<<"B", "memory_percent">> :> 50)
    /\ "memory_percent" \in DOMAIN am_requested.default
    /\ default_thresholds["memory_percent"] = 80
    /\ \E i \in 1..Len(am_ret) :
          /\ am_ret[i].container_id = "B"
          /\ am_ret[i].metric = "memory_percent"
          /\ am_ret[i].value = 60
          /\ am_ret[i].threshold = 50
    /\ get_threshold("A", OtherMetric) = Inf

----------------------------------------------------------------------------
(* Vocabulary of the ContainerMonitor properties *)

\* the last n entries of a sequence
LastN(seq, n) ==
    SubSeq(seq, IF Len(seq) > n THEN Len(seq) - n + 1 ELSE 1, Len(seq))

\* the snapshots appended for a container since the last clear, oldest first
StoredFor(container_id) ==
    IF container_id \in DOMAIN stored THEN stored[container_id] ELSE <<>>

\* a step that is a start_monitoring call and changes the state
StartStep ==
    /\ m_call'.op = "start_monitoring"
    /\ \/ m_call' # m_call
       \/ Len(threads') # Len(threads)

C9_StartIdempotent ==
    [][StartStep =>
        IF running
        THEN UNCHANGED <<running, thread, threads, metrics_history,
                         callbacks, refresh_interval>>
        ELSE /\ running'
             /\ Len(threads') = Len(threads) + 1
             /\ \A t \in 1..Len(threads) : threads'[t] = threads[t]
             /\ threads'[Len(threads')].pc = "L102"
             /\ thread' = Len(threads')
             /\ UNCHANGED <<metrics_history, callbacks,
                            refresh_interval>>]_vars

\* start, stop, start and start again: the second start found the monitor
\* stopped and started thread 2, the third found it running
C9_Witness ==
    /\ m_call.op = "start_monitoring"
    /\ m_call.was_running
    /\ running
    /\ Len(threads) = 2
    /\ thread = 2

(* C10: once a stop_monitoring call that found the monitor running has      *)
(* returned, and until the next start_monitoring or add_callback call, the  *)
(* running flag is clear, every History Buffer is empty and no callback is  *)
(* registered, wherever the loop thread was when the call was made.         *)
C10_StopResets ==
    (/\ m_call.op = "stop_monitoring"
     /\ m_call.was_running
     /\ m_call.returned) =>
        /\ ~running
        /\ \A c \in DOMAIN metrics_history : metrics_history[c] = <<>>
        /\ callbacks = <<>>

----------------------------------------------------------------------------
(* Vocabulary of the scheduling properties *)

\* max(1, s)
AtLeastOne(s) == IF s < 1 THEN 1 ELSE s

\* a step that is a set_interval call
SetIntervalStep ==
    /\ m_call'.op = "set_interval"
    /\ UNCHANGED <<threads, time>>

\* the step of loop thread t that ends a completed tick (monitor.py:172-177)
TickEnd(t) == threads[t].pc = "L164" /\ threads'[t].pc = "L187"

(* C11: set_interval(s) stores max(1, s) as the refresh interval whatever s *)
(* is, and neither stops nor starts a thread; a tick that completes while   *)
(* the stored value is still max(1, s) puts the next tick time max(1, s)    *)
(* seconds after its anchor, or after the current time.                     *)
C11_SetInterval ==
    [][/\ SetIntervalStep =>
             /\ refresh_interval' = AtLeastOne(m_call'.interval)
             /\ UNCHANGED <<running, thread, threads, next_update_time>>
       /\ \A t \in 1..Len(threads) :
             (/\ TickEnd(t)
              /\ m_call.op = "set_interval"
              /\ refresh_interval = AtLeastOne(m_call.interval)) =>
                 LET s == Seconds(AtLeastOne(m_call.interval))
                 IN /\ next_update_time'[t] \in
                          {next_update_time[t] + s, time + s}
                    /\ next_update_time'[t] >= time + s
                       \/ next_update_time'[t] = next_update_time[t] + s
                    /\ running' /\ Alive(t)]_vars

\* set_interval(0) during the first tick, which took a tenth of a second:
\* the second tick is due one second after the first was
C11_Witness ==
    /\ m_call = [op |-> "set_interval", interval |-> 0]
    /\ refresh_interval = 1
    /\ Len(threads) = 1
    /\ threads[1].pc = "L187"
    /\ threads[1].ticked
    /\ time = FastCollection
    /\ next_update_time[1] = Seconds(1)

----------------------------------------------------------------------------
(* Vocabulary of the collection properties *)

\* the call of _collect_metrics has returned
Returned == c_pc = "returned"

(* C12: the map _collect_metrics returns has exactly the listed containers  *)
(* whose stat fetch did not raise as its keys, each with its own snapshot,  *)
(* whatever subset of the fetches raised; every listed container was        *)
(* fetched once and none twice.                                             *)
C12_FailedOmitted ==
    /\ \A c \in DOMAIN fetches : fetches[c] <= 1
    /\ Returned =>
          /\ DOMAIN c_ret = Range(containers) \ raising
          /\ \A c \in DOMAIN c_ret : c_ret[c] = SnapshotEntry(c, 1)
          /\ \A c \in Range(containers) : fetches[c] = 1

\* three containers listed, the fetch of the second raised: the map has the
\* first and the third
C12_Witness ==
    /\ Returned
    /\ containers = <<1, 2, 3>>
    /\ raising = {2}
    /\ DOMAIN c_ret = {1, 3}
    /\ fetches[2] = 1

(* C13: no more than max_workers fetches are in flight at any time;         *)
(* _collect_metrics returns only when every listed container was submitted  *)
(* and every submitted fetch has finished and was read; when no fetch       *)
(* raises, the returned map has an entry for every listed container, also   *)
(* for 12 containers and 10 workers, in every interleaving.                 *)
C13_PoolComplete ==
    /\ Cardinality(InFlight) <= 10
    /\ Returned =>
          /\ Len(future) = Len(containers)
          /\ \A i \in 1..Len(future) : future[i].state = "yielded"
          /\ raising = {} => DOMAIN c_ret = Range(containers)

\* 12 containers listed: the call has returned a map of 12 entries
C13_Witness ==
    /\ Returned
    /\ Len(containers) = 12
    /\ raising = {}
    /\ Cardinality(DOMAIN c_ret) = 12

----------------------------------------------------------------------------
(* Vocabulary of the tick properties *)

\* the step of loop thread t in which its collection ends without a
\* snapshot map
RaiseStep(t) ==
    /\ threads[t].pc = "L120"
    /\ threads'[t].pc \notin {"L120", "L123"}

\* the callbacks in a list of calls, in the order of the calls
CallbacksOf(calls) == [n \in 1..Len(calls) |-> calls[n].callback]

(* C14: when the collection of a tick raises, the loop thread goes on to    *)
(* its sleep with the running flag as it was, nothing is appended to a      *)
(* History Buffer, no callback is invoked in that tick, and the next tick   *)
(* time is the time of the failure plus the interval; a tick that           *)
(* completes, also after a failed one, has appended each of its snapshots   *)
(* and has invoked every registered callback.                               *)
C14_TickFailure ==
    [][\A t \in 1..Len(threads) :
          /\ RaiseStep(t) =>
                /\ threads'[t].pc = "L187"
                /\ threads'[t].called = <<>>
                /\ UNCHANGED <<running, metrics_history, callbacks,
                               refresh_interval, time>>
                /\ next_update_time'[t] = time + Seconds(refresh_interval)
          /\ TickEnd(t) =>
                /\ \A n \in 1..Len(threads[t].metrics) :
                      LET snapshot == threads[t].metrics[n]
                          buffer == get_metrics_history(snapshot.id)
                      IN buffer # <<>> /\ buffer[Len(buffer)] = snapshot
                /\ CallbacksOf(threads[t].called) = callbacks]_vars

\* the first collection raised, the second returned container A: the thread
\* is alive, the buffer of A holds the second snapshot only, and the
\* callback was called with the second snapshot map only
C14_Witness ==
    /\ running
    /\ Len(threads) = 1
    /\ threads[1].pc = "L187"
    /\ ticks = 2
    /\ get_metrics_history("A") = <<SnapshotEntry("A", 2)>>
    /\ threads[1].called =
          <<[callback |-> "on_metrics_update",
             metrics |-> <<SnapshotEntry("A", 2)>>]>>

\* how many of the calls are calls of callback
TimesCalled(calls, callback) ==
    Cardinality({n \in 1..Len(calls) : calls[n].callback = callback})

\* where each loop thread is
Positions == [t \in 1..Len(threads) |-> threads[t].pc]

\* the callbacks registered during the whole dispatch that loop thread t
\* is ending
RegisteredThroughout(t) ==
    Range(threads[t].registered) \cap Range(callbacks)

(* C15: at the end of the dispatch of a tick, every callback that was       *)
(* registered during the whole dispatch has been invoked exactly once, with *)
(* the snapshot map of the tick, a raising callback like any other, and the *)
(* loop goes on to its sleep; no callback is in the callback list twice.    *)
C15_EachCalledOnce ==
    [][/\ \A t \in 1..Len(threads) :
             TickEnd(t) =>
                /\ \A cb \in RegisteredThroughout(t) :
                      TimesCalled(threads[t].called, cb) = 1
                /\ \A n \in 1..Len(threads[t].called) :
                      threads[t].called[n].metrics = threads[t].metrics
                /\ running' = running
       /\ \A cb \in DispatchCallbacks :
             Cardinality({n \in 1..Len(callbacks') : callbacks'[n] = cb})
                <= 1]_<<callbacks, Positions>>

\* the step in which a check_alerts call of NotifySpec returns
CheckReturns == am_pc = "L161" /\ am_pc' = "idle"

\* the callbacks registered during the whole of the check_alerts call
AlertRegisteredThroughout ==
    Range(am_call.registered) \cap Range(alert_callbacks)

(* C16: when a check_alerts call returns, it returns its new-alert list;    *)
(* if the list is not empty, every callback that was registered during the  *)
(* whole call has been invoked exactly once, a raising callback like any    *)
(* other; if the list is empty, no callback has been invoked.               *)
C16_NotifiesAll ==
    [][CheckReturns =>
          /\ am_ret' = am_new_alerts
          /\ IF am_new_alerts # <<>>
             THEN \A cb \in AlertRegisteredThroughout :
                     Cardinality({n \in 1..Len(am_notified) :
                                     am_notified[n] = cb}) = 1
             ELSE am_notified = <<>>]_am_pc

----------------------------------------------------------------------------
(* Vocabulary of the adaptive interval *)

\* the step in which loop thread t measures its collection (monitor.py:127)
MeasureStep(t) == threads[t].pc = "L127" /\ threads'[t].pc # "L127"

\* the step in which loop thread t stores the interval it has increased
\* (monitor.py:140)
AdjustStep(t) == threads[t].pc = "L140" /\ threads'[t].pc = "L146"

\* the collection time loop thread t measures, in tenths of a second
Measured(t) == time - start_time[t]

\* the latest three measured collections all took longer than the interval
ThreeOverruns(window) == Len(window) = 3 /\ \A n \in 1..3 : window[n]

\* a step of loop thread t other than its measurement
OtherLoopStep(t) == threads'[t] # threads[t] /\ ~AdjustStep(t)

----------------------------------------------------------------------------
(* Vocabulary of the get_container_stats properties *)

\* get_container_stats has returned
StatsReturned == DOMAIN stats_ret # {}

\* api_client.stats answered, and with a record no section of which makes
\* the arithmetic raise
Answered == stats_raise = {}

\* memory_stats of the raw record, empty when the record has none
MemoryStatsOf(obj) == Get(obj, "memory_stats", <<>>)

\* the record carries a limit of the memory
HasLimit(obj) == "limit" \in DOMAIN MemoryStatsOf(obj)

\* the counters of the two samples of the raw record
TotalUsage(sample) == Get(Get(sample, "cpu_usage", <<>>), "total_usage", 0)
SystemUsage(sample) == Get(sample, "system_cpu_usage", 0)
CpuDelta(obj) ==
    TotalUsage(Get(obj, "cpu_stats", <<>>))
    - TotalUsage(Get(obj, "precpu_stats", <<>>))
SystemDelta(obj) ==
    SystemUsage(Get(obj, "cpu_stats", <<>>))
    - SystemUsage(Get(obj, "precpu_stats", <<>>))

\* the record holds two samples: each carries a system counter that counted
TwoSample(obj) ==
    /\ SystemUsage(Get(obj, "cpu_stats", <<>>)) # 0
    /\ SystemUsage(Get(obj, "precpu_stats", <<>>)) # 0

\* the reported count of cores, else the length of the per-core array, else 1
OnlineCpus(obj) ==
    LET cpu_stats == Get(obj, "cpu_stats", <<>>)
        percpu == Get(Get(cpu_stats, "cpu_usage", <<>>), "percpu_usage", <<>>)
    IN IF Get(cpu_stats, "online_cpus", 0) # 0 THEN cpu_stats.online_cpus
       ELSE IF Len(percpu) # 0 THEN Len(percpu)
       ELSE 1

\* C18: for every raw stats record, the returned memory_percent is
\* memory_usage / memory_limit x 100 when the limit is positive, and 0 when
\* the limit is zero or absent from the record, also when the usage is
\* present and non-zero.
C18_MemoryPercent ==
    StatsReturned /\ Answered =>
       LET memory_stats == MemoryStatsOf(stats_obj)
       IN IF HasLimit(stats_obj) /\ memory_stats.limit > 0
          THEN stats_ret.memory_percent
               = Percent(Get(memory_stats, "usage", 0), memory_stats.limit)
          ELSE stats_ret.memory_percent = 0

----------------------------------------------------------------------------
(* Vocabulary of the loop-thread properties *)

\* the loop thread t is between the return of its collection and the end of
\* its callback dispatch, monitor.py:123-168
InTick(t) ==
    threads[t].pc \in {"L123", "L127", "L146", "L150", "L160", "L164"}

\* the loop thread t is updating the history buffers (monitor.py:150-157) or
\* dispatching the callbacks (monitor.py:164-168)
Mutating(t) == threads[t].pc \in {"L150", "L164"}

\* C20: over any sequence of start_monitoring and stop_monitoring calls,
\* also a stop whose join timed out followed by a new start, no loop thread
\* updates the history buffers or dispatches callbacks while another loop
\* thread is between its collection and the end of its callback dispatch.
C20_OneLoopThread ==
    \A t, u \in 1..Len(threads) : (t # u /\ Mutating(t)) => ~InTick(u)

----------------------------------------------------------------------------
(* Vocabulary of the waiting loop *)

\* the longest sleep of the loop, monitor.py:187, in tenths of a second
SleepIncrement == 5

\* C21: after a set_interval(s) call made while the loop was waiting between
\* ticks, the next collection starts no later than s seconds plus one sleep
\* increment after the call: until it has started, no more time than that
\* has passed since the call.
C21_PromptInterval ==
    changed_at >= 0 =>
       time <= changed_at + Seconds(refresh_interval) + SleepIncrement

\* the step in which loop thread t begins its sleep (monitor.py:190)
SleepStep(t) == threads[t].pc = "L187" /\ threads'[t].pc # "L187"

\* the step in which loop thread t begins an iteration after another
NextIteration(t) == threads[t].pc # "L102" /\ threads'[t].pc = "L102"

\* every loop thread has ended
AllEnded == \A t \in 1..Len(threads) : ~Alive(t)

----------------------------------------------------------------------------
(* Vocabulary of the tick schedule *)

\* loop thread t moves from one place of the loop to another
Moves(t, from, to) == threads[t].pc = from /\ threads'[t].pc = to

\* loop thread t arrives at a place of the loop
Arrives(t, to) == threads[t].pc # to /\ threads'[t].pc = to

(* C23: at the end of a completed tick the next tick time is the previous   *)
(* anchor plus the interval when that is not in the past, and the current   *)
(* time plus the interval otherwise; it is not earlier than the time at     *)
(* which the tick ended; and the loop reaches the start of a collection     *)
(* only through the due test, the test of the while and, after a tick, a    *)
(* sleep of at least a tenth of a second.                                   *)
C23_NextTick ==
    [][\A t \in 1..Len(threads) :
          /\ TickEnd(t) =>
                LET advanced ==
                       next_update_time[t] + Seconds(refresh_interval)
                IN /\ next_update_time'[t] =
                         IF advanced >= time THEN advanced
                         ELSE time + Seconds(refresh_interval)
                   /\ next_update_time'[t] >= time
          /\ Arrives(t, "L113") =>
                Moves(t, "L104", "L113") /\ time >= next_update_time[t]
          /\ Arrives(t, "L104") => Moves(t, "L102", "L104")
          /\ Arrives(t, "L102") =>
                /\ Moves(t, "L187", "L102")
                /\ busy_until'[t] >= time + 1
      ]_<<threads, next_update_time>>

\* a first collection of 7 seconds with the interval of 5: the second tick
\* is due 5 seconds after the end of the first, not 2 seconds before it
C23_Witness ==
    /\ Len(threads) = 1
    /\ threads[1].pc = "L187"
    /\ ticks = 1
    /\ refresh_interval = DefaultInterval
    /\ time = 70
    /\ next_update_time[1] = 120

----------------------------------------------------------------------------
(* Vocabulary of the alert history *)

\* the entries of a sequence of alerts that have the status
WithStatus(alerts, status) == SelectSeq(alerts, LAMBDA a : a.status = status)

(* C24: a check_alerts call appends to the alert history one entry with     *)
(* status active for each pair whose alert it creates, one with status      *)
(* resolved for each pair whose alert it resolves or auto-resolves, and     *)
(* nothing else, so nothing for an alert it updates; no other call changes  *)
(* the history; and in every state the number of history entries with       *)
(* status active minus the number with status resolved is the number of     *)
(* active alerts.                                                           *)
C24_HistoryEntries ==
    /\ [][IF CheckStep
          THEN LET appended == Appended(alert_history, alert_history')
                   before == ActivePairs(active_alerts)
                   after == ActivePairs(active_alerts')
               IN /\ SubSeq(alert_history', 1, Len(alert_history))
                        = alert_history
                  /\ \A p \in AllPairs :
                        LET entries == EntriesFor(appended, p)
                        IN IF p \in after \ before
                           THEN /\ Len(entries) = 1
                                /\ entries[1].status = "active"
                           ELSE IF p \in before \ after
                           THEN /\ Len(entries) = 1
                                /\ entries[1].status = "resolved"
                           ELSE entries = <<>>
                  /\ \A n \in 1..Len(appended) :
                        <<appended[n].container_id, appended[n].metric>>
                           \in AllPairs
          ELSE alert_history' = alert_history
         ]_<<am_checks, alert_history>>
    /\ [](Len(WithStatus(alert_history, "active"))
             - Len(WithStatus(alert_history, "resolved"))
          = Len(active_alerts))

\* an alert was created, then updated with another value, while a second
\* alert was created and resolved: three entries, one alert
C24_Witness ==
    /\ Len(alert_history) = 3
    /\ Len(WithStatus(alert_history, "resolved")) = 1
    /\ Len(active_alerts) = 1
    /\ active_alerts[1].last_updated > active_alerts[1].start_time
    /\ alert_history[1].id = active_alerts[1].id
    /\ active_alerts[1].value # alert_history[1].value

(* C25: after any sequence of check_alerts, set_default_threshold and       *)
(* set_container_threshold calls, every alert in the active set records a   *)
(* value strictly greater than the threshold it records; and when           *)
(* check_alerts has returned, the threshold an active alert records is the  *)
(* effective threshold of its pair, against which the call compared the     *)
(* value the alert records.                                                 *)
C25_RecordedThreshold ==
    \A i \in 1..Len(active_alerts) :
       LET alert == active_alerts[i]
       IN /\ alert.value > alert.threshold
          /\ am_call.op = "check_alerts" =>
                alert.threshold
                   = get_threshold(alert.container_id, alert.metric)

(* C26: when stop_monitoring has cleared the running flag while a loop      *)
(* thread was inside its collection and no start has followed, no step of   *)
(* that thread changes a history buffer or invokes a callback: the snapshot *)
(* map of that collection is discarded.                                     *)
C26_Discarded ==
    [][\A t \in stopped.collecting :
          threads'[t] # threads[t] =>
             /\ metrics_history' = metrics_history
             /\ Len(threads'[t].called) <= Len(threads[t].called)
             /\ threads'[t].pc \notin {"L150", "L164"}
      ]_threads

\* the flag was cleared during the first collection, which then returned a
\* snapshot map; the thread has ended and the history is empty
C26_Witness ==
    /\ stopped.collecting = {1}
    /\ ticks = 1
    /\ threads[1].pc = "done"
    /\ ~threads[1].ticked
    /\ ~running
    /\ DOMAIN metrics_history = {}

----------------------------------------------------------------------------
(* Vocabulary of the interval *)

(* C27: the refresh interval is at least 1 second in every reachable state, *)
(* whatever the arguments of set_interval and whatever the collection       *)
(* times.                                                                   *)
C27_IntervalAtLeastOne == refresh_interval >= 1

\* set_interval(-1) has stored 1 second, and the third collection of more
\* than that, 1.1 seconds, makes the loop store int(1.32)
C27_Witness ==
    /\ Len(threads) = 1
    /\ threads[1].pc = "L140"
    /\ threads[1].collection_time = 11
    /\ threads[1].new_interval = 1
    /\ m_call = [op |-> "set_interval", interval |-> -1]
    /\ refresh_interval = 1

(* C28: whenever the loop adaptively adjusts the interval, the new interval *)
(* is at least the collection time that triggered the adjustment and is not *)
(* smaller than the interval it replaces.                                   *)
C28_AdjustedUpward ==
    [][\A t \in 1..Len(threads) :
          AdjustStep(t) =>
             /\ Seconds(refresh_interval') >= threads[t].collection_time
             /\ refresh_interval' >= refresh_interval
      ]_<<refresh_interval, threads>>

(* C29: a set_interval call made while the loop executes a tick is not      *)
(* lost: set_interval(s) stores max(1, s), and an adaptive adjustment       *)
(* replaces only the interval its decision compared the collection time     *)
(* with, never one that was stored since.                                   *)
C29_SetIntervalKept ==
    [][/\ SetIntervalStep =>
             refresh_interval' = AtLeastOne(m_call'.interval)
       /\ \A t \in 1..Len(threads) :
             AdjustStep(t) => refresh_interval = threads[t].read_interval
      ]_<<refresh_interval, threads, m_call>>

----------------------------------------------------------------------------
(* get_container_stats on a failing call, and the monitor behind it *)

\* the six keys of the record get_container_stats returns
StatsKeys ==
    {"cpu_percent", "memory_usage", "memory_limit", "memory_percent",
     "network_rx", "network_tx"}

\* api_client.stats raised, or answered with nothing
Failing == "stats" \in stats_raise \/ DOMAIN stats_obj = {}

\* the metrics of a snapshot entry are all zero
ZeroMetrics(entry) ==
    /\ entry.cpu_percent = 0
    /\ entry.memory_usage = 0
    /\ entry.memory_percent = 0
    /\ entry.network_rx = 0
    /\ entry.network_tx = 0

\* C30: get_container_stats never propagates an exception: on every path,
\* including a failing or empty answer of the Docker API, it returns a record
\* with the six keys cpu_percent, memory_usage, memory_limit, memory_percent,
\* network_rx and network_tx, every value zero on failure; so the monitor
\* gets a metrics dict for a failing container, and once the result of the
\* fetch is processed the snapshot map holds the container, with zero
\* metrics.
C30_NoException ==
    /\ [](StatsReturned =>
            /\ stats_ret # Propagated
            /\ DOMAIN stats_ret = StatsKeys
            /\ Failing => \A key \in StatsKeys : stats_ret[key] = 0)
    /\ [](stats_pair # <<>> =>
            /\ stats_pair[1] = StatsContainer
            /\ stats_pair[2] # NoMetrics
            /\ Failing => ZeroMetrics(stats_pair[2]))
    /\ [][StatsResult =>
            /\ DOMAIN stats_metrics' = {StatsContainer}
            /\ stats_metrics'[StatsContainer] = stats_pair[2]
         ]_<<stats_pair, stats_metrics>>

\* api_client.stats raised for a container: the snapshot map holds the
\* container with zero metrics
C30_Witness ==
    /\ "stats" \in stats_raise
    /\ DOMAIN stats_obj # {}
    /\ stats_ret = ZeroStats
    /\ StatsContainer \in DOMAIN stats_metrics
    /\ ZeroMetrics(stats_metrics[StatsContainer])

====
